---- MODULE Spec2Model ----
(***************************************************************************)
(* A model of redlink-controller: the hysteresis decision function         *)
(* (hysteresis.py), the controller-state transition, and the service       *)
(* (service.py): the background loop thread, the manual command path, the  *)
(* session policy around the device client, and their interleavings.       *)
(*                                                                         *)
(* Temperatures and setpoints are whole numbers; Python's None is Absent   *)
(* for numbers and "none" for modes, action kinds and messages.            *)
(***************************************************************************)
EXTENDS Integers, FiniteSets, Sequences, TLC

\* ------------------------------------------------------------------ bounds

\* Largest temperature / threshold / setpoint of the decision harness.
MaxT == 3
\* Last instant of the service's clock.
MaxNow == 3
\* AppConfig.login_refresh_seconds, in clock ticks.
RefreshTicks == 2

\* ------------------------------------------------- values and constants

\* Python's None for an Optional number.
Absent == -1

\* AppConfig's default thresholds.
DefaultHeatOnBelow == 68
DefaultHeatOffAt == 71
DefaultCoolOnAbove == 76
DefaultCoolOffAt == 74

Modes == {"none", "heat", "cool"}

\* ControllerState() as constructed.
ControllerState == [mode |-> "none", last_action |-> "none"]

\* HysteresisAction(kind, setpoint); NoAction is decide_action's None.
HysteresisAction(kind, setpoint) == [kind |-> kind, setpoint |-> setpoint]
NoAction == [kind |-> "none", setpoint |-> Absent]

\* ------------------------------------------------------- hysteresis.py

\* Mutant: _resolve_mode trusts the remembered mode whatever the device reports.
_resolve_mode_remembered(st, config, heat_setpoint, cool_setpoint) == st.mode

_resolve_mode(st, config, heat_setpoint, cool_setpoint) ==
    LET heat_active == IF heat_setpoint # Absent
                       THEN heat_setpoint = config.heat_off_at ELSE FALSE
        cool_active == IF cool_setpoint # Absent
                       THEN cool_setpoint = config.cool_off_at ELSE FALSE
    IN  IF heat_active /\ ~cool_active THEN "heat"
        ELSE IF cool_active /\ ~heat_active THEN "cool"
        ELSE IF heat_active /\ cool_active THEN st.mode
        ELSE IF st.mode = "heat" /\ heat_setpoint # Absent
                /\ heat_setpoint # config.heat_off_at THEN "none"
        ELSE IF st.mode = "cool" /\ cool_setpoint # Absent
                /\ cool_setpoint # config.cool_off_at THEN "none"
        ELSE st.mode

\* Mutant: the heat-start rule compares with < instead of <=.
decide_action_heat_strict(temperature, config, st, heat_setpoint, cool_setpoint) ==
    IF temperature = Absent THEN NoAction
    ELSE IF ~config.hysteresis_enabled THEN NoAction
    ELSE IF config.enable_heat /\ temperature < config.heat_on_below
            /\ heat_setpoint # config.heat_off_at
         THEN HysteresisAction("heat", config.heat_off_at)
    ELSE IF config.enable_cool /\ temperature >= config.cool_on_above
            /\ cool_setpoint # config.cool_off_at
         THEN HysteresisAction("cool", config.cool_off_at)
    ELSE IF config.enable_heat /\ temperature >= config.heat_off_at
            /\ heat_setpoint # config.heat_on_below
         THEN HysteresisAction("heat-idle", config.heat_on_below)
    ELSE IF config.enable_cool /\ temperature <= config.cool_off_at
            /\ cool_setpoint # config.cool_on_above
         THEN HysteresisAction("cool-idle", config.cool_on_above)
    ELSE LET mode == _resolve_mode(st, config, heat_setpoint, cool_setpoint)
         IN  IF mode = "heat" /\ ~config.enable_heat
             THEN HysteresisAction("cancel", Absent)
             ELSE IF mode = "cool" /\ ~config.enable_cool
             THEN HysteresisAction("cancel", Absent)
             ELSE NoAction

\* Mutant: the cool-start rule compares with > instead of >=.
decide_action_cool_strict(temperature, config, st, heat_setpoint, cool_setpoint) ==
    IF temperature = Absent THEN NoAction
    ELSE IF ~config.hysteresis_enabled THEN NoAction
    ELSE IF config.enable_heat /\ temperature <= config.heat_on_below
            /\ heat_setpoint # config.heat_off_at
         THEN HysteresisAction("heat", config.heat_off_at)
    ELSE IF config.enable_cool /\ temperature > config.cool_on_above
            /\ cool_setpoint # config.cool_off_at
         THEN HysteresisAction("cool", config.cool_off_at)
    ELSE IF config.enable_heat /\ temperature >= config.heat_off_at
            /\ heat_setpoint # config.heat_on_below
         THEN HysteresisAction("heat-idle", config.heat_on_below)
    ELSE IF config.enable_cool /\ temperature <= config.cool_off_at
            /\ cool_setpoint # config.cool_on_above
         THEN HysteresisAction("cool-idle", config.cool_on_above)
    ELSE LET mode == _resolve_mode(st, config, heat_setpoint, cool_setpoint)
         IN  IF mode = "heat" /\ ~config.enable_heat
             THEN HysteresisAction("cancel", Absent)
             ELSE IF mode = "cool" /\ ~config.enable_cool
             THEN HysteresisAction("cancel", Absent)
             ELSE NoAction

\* Mutant: the heat-start rule lacks the test of the reported heat setpoint.
decide_action_heat_unguarded(temperature, config, st, heat_setpoint, cool_setpoint) ==
    IF temperature = Absent THEN NoAction
    ELSE IF ~config.hysteresis_enabled THEN NoAction
    ELSE IF config.enable_heat /\ temperature <= config.heat_on_below
         THEN HysteresisAction("heat", config.heat_off_at)
    ELSE IF config.enable_cool /\ temperature >= config.cool_on_above
            /\ cool_setpoint # config.cool_off_at
         THEN HysteresisAction("cool", config.cool_off_at)
    ELSE IF config.enable_heat /\ temperature >= config.heat_off_at
            /\ heat_setpoint # config.heat_on_below
         THEN HysteresisAction("heat-idle", config.heat_on_below)
    ELSE IF config.enable_cool /\ temperature <= config.cool_off_at
            /\ cool_setpoint # config.cool_on_above
         THEN HysteresisAction("cool-idle", config.cool_on_above)
    ELSE LET mode == _resolve_mode(st, config, heat_setpoint, cool_setpoint)
         IN  IF mode = "heat" /\ ~config.enable_heat
             THEN HysteresisAction("cancel", Absent)
             ELSE IF mode = "cool" /\ ~config.enable_cool
             THEN HysteresisAction("cancel", Absent)
             ELSE NoAction

\* Mutant: the heat-idle rule compares with > instead of >=.
decide_action_idle_strict(temperature, config, st, heat_setpoint, cool_setpoint) ==
    IF temperature = Absent THEN NoAction
    ELSE IF ~config.hysteresis_enabled THEN NoAction
    ELSE IF config.enable_heat /\ temperature <= config.heat_on_below
            /\ heat_setpoint # config.heat_off_at
         THEN HysteresisAction("heat", config.heat_off_at)
    ELSE IF config.enable_cool /\ temperature >= config.cool_on_above
            /\ cool_setpoint # config.cool_off_at
         THEN HysteresisAction("cool", config.cool_off_at)
    ELSE IF config.enable_heat /\ temperature > config.heat_off_at
            /\ heat_setpoint # config.heat_on_below
         THEN HysteresisAction("heat-idle", config.heat_on_below)
    ELSE IF config.enable_cool /\ temperature <= config.cool_off_at
            /\ cool_setpoint # config.cool_on_above
         THEN HysteresisAction("cool-idle", config.cool_on_above)
    ELSE LET mode == _resolve_mode(st, config, heat_setpoint, cool_setpoint)
         IN  IF mode = "heat" /\ ~config.enable_heat
             THEN HysteresisAction("cancel", Absent)
             ELSE IF mode = "cool" /\ ~config.enable_cool
             THEN HysteresisAction("cancel", Absent)
             ELSE NoAction

\* Mutant: the heat-idle action carries heat_off_at instead of heat_on_below.
decide_action_idle_setpoint(temperature, config, st, heat_setpoint, cool_setpoint) ==
    IF temperature = Absent THEN NoAction
    ELSE IF ~config.hysteresis_enabled THEN NoAction
    ELSE IF config.enable_heat /\ temperature <= config.heat_on_below
            /\ heat_setpoint # config.heat_off_at
         THEN HysteresisAction("heat", config.heat_off_at)
    ELSE IF config.enable_cool /\ temperature >= config.cool_on_above
            /\ cool_setpoint # config.cool_off_at
         THEN HysteresisAction("cool", config.cool_off_at)
    ELSE IF config.enable_heat /\ temperature >= config.heat_off_at
            /\ heat_setpoint # config.heat_on_below
         THEN HysteresisAction("heat-idle", config.heat_off_at)
    ELSE IF config.enable_cool /\ temperature <= config.cool_off_at
            /\ cool_setpoint # config.cool_on_above
         THEN HysteresisAction("cool-idle", config.cool_on_above)
    ELSE LET mode == _resolve_mode(st, config, heat_setpoint, cool_setpoint)
         IN  IF mode = "heat" /\ ~config.enable_heat
             THEN HysteresisAction("cancel", Absent)
             ELSE IF mode = "cool" /\ ~config.enable_cool
             THEN HysteresisAction("cancel", Absent)
             ELSE NoAction

\* Mutant: the heat-idle rule compares with heat_on_below instead of heat_off_at.
decide_action_idle_threshold(temperature, config, st, heat_setpoint, cool_setpoint) ==
    IF temperature = Absent THEN NoAction
    ELSE IF ~config.hysteresis_enabled THEN NoAction
    ELSE IF config.enable_heat /\ temperature <= config.heat_on_below
            /\ heat_setpoint # config.heat_off_at
         THEN HysteresisAction("heat", config.heat_off_at)
    ELSE IF config.enable_cool /\ temperature >= config.cool_on_above
            /\ cool_setpoint # config.cool_off_at
         THEN HysteresisAction("cool", config.cool_off_at)
    ELSE IF config.enable_heat /\ temperature >= config.heat_on_below
            /\ heat_setpoint # config.heat_on_below
         THEN HysteresisAction("heat-idle", config.heat_on_below)
    ELSE IF config.enable_cool /\ temperature <= config.cool_off_at
            /\ cool_setpoint # config.cool_on_above
         THEN HysteresisAction("cool-idle", config.cool_on_above)
    ELSE LET mode == _resolve_mode(st, config, heat_setpoint, cool_setpoint)
         IN  IF mode = "heat" /\ ~config.enable_heat
             THEN HysteresisAction("cancel", Absent)
             ELSE IF mode = "cool" /\ ~config.enable_cool
             THEN HysteresisAction("cancel", Absent)
             ELSE NoAction

\* Mutant: the test of hysteresis_enabled is missing.
decide_action_always_enabled(temperature, config, st, heat_setpoint, cool_setpoint) ==
    IF temperature = Absent THEN NoAction
    ELSE IF config.enable_heat /\ temperature <= config.heat_on_below
            /\ heat_setpoint # config.heat_off_at
         THEN HysteresisAction("heat", config.heat_off_at)
    ELSE IF config.enable_cool /\ temperature >= config.cool_on_above
            /\ cool_setpoint # config.cool_off_at
         THEN HysteresisAction("cool", config.cool_off_at)
    ELSE IF config.enable_heat /\ temperature >= config.heat_off_at
            /\ heat_setpoint # config.heat_on_below
         THEN HysteresisAction("heat-idle", config.heat_on_below)
    ELSE IF config.enable_cool /\ temperature <= config.cool_off_at
            /\ cool_setpoint # config.cool_on_above
         THEN HysteresisAction("cool-idle", config.cool_on_above)
    ELSE LET mode == _resolve_mode(st, config, heat_setpoint, cool_setpoint)
         IN  IF mode = "heat" /\ ~config.enable_heat
             THEN HysteresisAction("cancel", Absent)
             ELSE IF mode = "cool" /\ ~config.enable_cool
             THEN HysteresisAction("cancel", Absent)
             ELSE NoAction

\* Mutant: the heat-idle rule lacks the test of the reported heat setpoint.
decide_action_idle_unguarded(temperature, config, st, heat_setpoint, cool_setpoint) ==
    IF temperature = Absent THEN NoAction
    ELSE IF ~config.hysteresis_enabled THEN NoAction
    ELSE IF config.enable_heat /\ temperature <= config.heat_on_below
            /\ heat_setpoint # config.heat_off_at
         THEN HysteresisAction("heat", config.heat_off_at)
    ELSE IF config.enable_cool /\ temperature >= config.cool_on_above
            /\ cool_setpoint # config.cool_off_at
         THEN HysteresisAction("cool", config.cool_off_at)
    ELSE IF config.enable_heat /\ temperature >= config.heat_off_at
         THEN HysteresisAction("heat-idle", config.heat_on_below)
    ELSE IF config.enable_cool /\ temperature <= config.cool_off_at
            /\ cool_setpoint # config.cool_on_above
         THEN HysteresisAction("cool-idle", config.cool_on_above)
    ELSE LET mode == _resolve_mode(st, config, heat_setpoint, cool_setpoint)
         IN  IF mode = "heat" /\ ~config.enable_heat
             THEN HysteresisAction("cancel", Absent)
             ELSE IF mode = "cool" /\ ~config.enable_cool
             THEN HysteresisAction("cancel", Absent)
             ELSE NoAction

\* Mutant: the cool-start rule lacks the test of enable_cool.
decide_action_cool_any(temperature, config, st, heat_setpoint, cool_setpoint) ==
    IF temperature = Absent THEN NoAction
    ELSE IF ~config.hysteresis_enabled THEN NoAction
    ELSE IF config.enable_heat /\ temperature <= config.heat_on_below
            /\ heat_setpoint # config.heat_off_at
         THEN HysteresisAction("heat", config.heat_off_at)
    ELSE IF temperature >= config.cool_on_above
            /\ cool_setpoint # config.cool_off_at
         THEN HysteresisAction("cool", config.cool_off_at)
    ELSE IF config.enable_heat /\ temperature >= config.heat_off_at
            /\ heat_setpoint # config.heat_on_below
         THEN HysteresisAction("heat-idle", config.heat_on_below)
    ELSE IF config.enable_cool /\ temperature <= config.cool_off_at
            /\ cool_setpoint # config.cool_on_above
         THEN HysteresisAction("cool-idle", config.cool_on_above)
    ELSE LET mode == _resolve_mode(st, config, heat_setpoint, cool_setpoint)
         IN  IF mode = "heat" /\ ~config.enable_heat
             THEN HysteresisAction("cancel", Absent)
             ELSE IF mode = "cool" /\ ~config.enable_cool
             THEN HysteresisAction("cancel", Absent)
             ELSE NoAction

decide_action(temperature, config, st, heat_setpoint, cool_setpoint) ==
    IF temperature = Absent THEN NoAction
    ELSE IF ~config.hysteresis_enabled THEN NoAction
    ELSE IF config.enable_heat /\ temperature <= config.heat_on_below
            /\ heat_setpoint # config.heat_off_at
         THEN HysteresisAction("heat", config.heat_off_at)
    ELSE IF config.enable_cool /\ temperature >= config.cool_on_above
            /\ cool_setpoint # config.cool_off_at
         THEN HysteresisAction("cool", config.cool_off_at)
    ELSE IF config.enable_heat /\ temperature >= config.heat_off_at
            /\ heat_setpoint # config.heat_on_below
         THEN HysteresisAction("heat-idle", config.heat_on_below)
    ELSE IF config.enable_cool /\ temperature <= config.cool_off_at
            /\ cool_setpoint # config.cool_on_above
         THEN HysteresisAction("cool-idle", config.cool_on_above)
    ELSE LET mode == _resolve_mode(st, config, heat_setpoint, cool_setpoint)
         IN  IF mode = "heat" /\ ~config.enable_heat
             THEN HysteresisAction("cancel", Absent)
             ELSE IF mode = "cool" /\ ~config.enable_cool
             THEN HysteresisAction("cancel", Absent)
             ELSE NoAction

\* Mutant: an idle action leaves the mode as it was.
apply_action_idle_keeps(st, action) ==
    IF action.kind = "none" THEN st
    ELSE [mode |-> IF action.kind = "heat" THEN "heat"
                   ELSE IF action.kind = "cool" THEN "cool"
                   ELSE IF action.kind = "cancel" THEN "none"
                   ELSE st.mode,
          last_action |-> action.kind]

apply_action(st, action) ==
    IF action.kind = "none" THEN st
    ELSE [mode |-> IF action.kind = "heat" THEN "heat"
                   ELSE IF action.kind = "cool" THEN "cool"
                   ELSE IF action.kind \in {"heat-idle", "cool-idle", "cancel"}
                        THEN "none"
                   ELSE st.mode,
          last_action |-> action.kind]

\* ----------------------------------------------------------- config.py

\* Mutant: is_configured answers yes for every configuration.
is_configured_lenient(config) == TRUE

is_configured(config) == config.ident # 0

\* Mutant: validate_config reports nothing.
validate_config_lenient(config) == <<>>

validate_config(config) ==
    (IF config.control_mode \notin {"hysteresis", "schedule"}
     THEN <<"control_mode must be 'hysteresis' or 'schedule'">> ELSE <<>>)
    \o (IF config.heat_on_below >= config.heat_off_at
        THEN <<"heat_on_below must be less than heat_off_at">> ELSE <<>>)
    \o (IF config.cool_on_above <= config.cool_off_at
        THEN <<"cool_on_above must be greater than cool_off_at">> ELSE <<>>)
    \o (IF config.login_refresh_seconds <= 0
        THEN <<"login_refresh_seconds must be positive">> ELSE <<>>)

\* "; ".join(errors)
RECURSIVE JoinErrors(_)
JoinErrors(errors) ==
    IF Len(errors) = 0 THEN ""
    ELSE IF Len(errors) = 1 THEN errors[1]
    ELSE errors[1] \o "; " \o JoinErrors(Tail(errors))

BaseConfig ==
    [ident |-> 1, control_mode |-> "hysteresis", hysteresis_enabled |-> TRUE,
     enable_heat |-> TRUE, enable_cool |-> TRUE,
     heat_on_below |-> DefaultHeatOnBelow, heat_off_at |-> DefaultHeatOffAt,
     cool_on_above |-> DefaultCoolOnAbove, cool_off_at |-> DefaultCoolOffAt,
     login_refresh_seconds |-> RefreshTicks]

ScheduleConfig == [BaseConfig EXCEPT !.control_mode = "schedule"]
NoHeatConfig == [BaseConfig EXCEPT !.enable_heat = FALSE]
NoCoolConfig == [BaseConfig EXCEPT !.enable_cool = FALSE]
\* heat_on_below >= heat_off_at: rejected by validate_config
InvalidConfig == [BaseConfig EXCEPT !.heat_on_below = DefaultHeatOffAt]
\* AppConfig(): username, password and device_id unset
UnidentifiedConfig == [BaseConfig EXCEPT !.ident = 0]
\* other credentials or device: a different client key
OtherIdentityConfig == [BaseConfig EXCEPT !.ident = 2]

\* A file load_config cannot read (missing, not JSON, a field int() rejects).
Corrupt == [ident |-> 0, control_mode |-> "unreadable"]
NoConfig == [ident |-> 0, control_mode |-> "unset"]

\* What the file holds in the interleaving model, in the loop model and in
\* the hold model.
SharedConfigs == {BaseConfig, UnidentifiedConfig, OtherIdentityConfig}
LoopConfigs == {BaseConfig, ScheduleConfig, InvalidConfig, UnidentifiedConfig,
                Corrupt}
HoldConfigs == {BaseConfig, NoHeatConfig, NoCoolConfig}

\* ----------------------------------------------------------- models.py

ThermostatStatus(t, h, c, hold, sh, sc) ==
    [temperature |-> t, heat_setpoint |-> h, cool_setpoint |-> c,
     hold_until |-> hold, status_heat |-> sh, status_cool |-> sc]

NoStatus == ThermostatStatus(Absent, Absent, Absent, "None", Absent, Absent)

\* Statuses the device reports in the interleaving model: cold, in the
\* deadband at the idle setpoints, in the deadband with a hold running.
SharedStatuses ==
    { ThermostatStatus(67, DefaultHeatOnBelow, DefaultCoolOnAbove, "None", 0, 0),
      ThermostatStatus(72, DefaultHeatOnBelow, DefaultCoolOnAbove, "None", 0, 0),
      ThermostatStatus(72, DefaultHeatOnBelow, DefaultCoolOnAbove, "11:00 PM", 1, 0) }

\* Statuses the device reports in the loop model: those above and one for
\* each way _is_hold_active reads a hold or its absence.
LoopStatuses ==
    SharedStatuses \cup
    { ThermostatStatus(72, DefaultHeatOnBelow, DefaultCoolOnAbove, "--", 0, 0),
      ThermostatStatus(72, DefaultHeatOnBelow, DefaultCoolOnAbove, "", Absent, Absent),
      ThermostatStatus(72, DefaultHeatOnBelow, DefaultCoolOnAbove, "11:00 PM", 0, 0),
      ThermostatStatus(72, DefaultHeatOnBelow, DefaultCoolOnAbove, "None", 0, 1) }

\* Statuses the device reports in the hold model: temperatures below, between
\* and above the default thresholds, with the setpoints the rules compare.
HoldStatuses ==
    { ThermostatStatus(67, DefaultHeatOnBelow, DefaultCoolOnAbove, "None", 0, 0),
      ThermostatStatus(70, DefaultHeatOffAt, DefaultCoolOnAbove, "None", 0, 0),
      ThermostatStatus(70, DefaultHeatOffAt, DefaultCoolOffAt, "None", 0, 0),
      ThermostatStatus(70, DefaultHeatOnBelow, DefaultCoolOffAt, "None", 0, 0),
      ThermostatStatus(75, DefaultHeatOffAt, DefaultCoolOnAbove, "None", 0, 0),
      ThermostatStatus(77, DefaultHeatOnBelow, DefaultCoolOnAbove, "None", 0, 0),
      ThermostatStatus(77, DefaultHeatOnBelow, DefaultCoolOffAt, "None", 0, 0),
      ThermostatStatus(77, DefaultHeatOffAt, DefaultCoolOffAt, "None", 0, 0) }

\* ---------------------------------------------------------- service.py

_is_hold_active(status) ==
    \/ status.hold_until \notin {"None", "", "--"}
    \/ status.status_heat \notin {Absent, 0}
    \/ status.status_cool \notin {Absent, 0}

\* Mutant: the refresh test compares with > instead of >=.
LoginNeeded_strict(last, t, cfg) ==
    \/ last = Absent
    \/ t - last > cfg.login_refresh_seconds

\* _login_if_needed's test, on the values it reads
LoginNeeded(last, t, cfg) ==
    \/ last = Absent
    \/ t - last >= cfg.login_refresh_seconds

Callers == {"m1"}
Commands == {"heat", "cool", "fan", "cancel", "unknown"}
LoginOutcomes == {"ok", "RequestError", "LoginError"}
CallOutcomes == {"ok", "RequestError"}

VARIABLES
    cfgFile,         \* the configuration file: a configuration, or Corrupt
    now,             \* time.time()
    stop_event,      \* self._stop_event
    config,          \* self._config
    client_key,      \* self._client_key (Absent: no client built)
    state,           \* self._state
    last_status,     \* self._last_status
    last_error,      \* self._last_error
    last_action_at,  \* self._last_action_at
    last_login_at,   \* self._last_login_at
    loop,            \* the loop thread: position and locals of _run
    loop2,           \* the thread of a further start(): position and config
    man,             \* each caller of apply_manual_command: position and locals
    lexec,           \* history: calls made by the loop's current device operation
    lfault,          \* history: the failure raised in the loop's current cycle
    snap,            \* a caller of get_snapshot: position, locals and result
    session,         \* history: logins made on the client now installed
    accepted,        \* history: the kind of the hold command accepted last
    din,             \* decision harness: the arguments
    dout             \* decision harness: the result

envVars == <<cfgFile, now, stop_event>>
sharedVars == <<config, client_key, state, last_status, last_error,
                last_action_at, last_login_at>>
loopVars == <<loop, lexec, lfault>>
harnessVars == <<din, dout>>
vars == <<cfgFile, now, stop_event, config, client_key, state, last_status,
          last_error, last_action_at, last_login_at, loop, loop2, man, lexec,
          lfault, snap, session, accepted, din, dout>>

LoopLocals(pc) ==
    [pc |-> pc, cfg |-> NoConfig, status |-> NoStatus, action |-> NoAction,
     now |-> Absent]

\* The locals of a further _run thread.
OtherLocals(pc) == [pc |-> pc, cfg |-> NoConfig]

ManLocals == [pc |-> "idle", cmd |-> "none", now |-> Absent, res |-> "none"]

\* get_snapshot's locals: last_action_at is read under the lock, mode by
\* asdict afterwards; whole is history: no _update_state was in progress at
\* any read so far.
SnapLocals ==
    [pc |-> "idle", mode |-> "none", last_action_at |-> Absent, whole |-> TRUE]

\* History of the RedlinkClient that self._client refers to: logged, a
\* login() on it has succeeded; old, the threads whose login() in progress
\* was called on a client that _ensure_client has since replaced.
NoSession == [logged |-> FALSE, old |-> {}]

ExecStart(op) ==
    [op |-> op, tries |-> 0, logins |-> 0, forced |-> 0, try_failed |-> "none",
     login_error |-> "none",
     forced_ok |-> FALSE, retry_failed |-> FALSE, result |-> "running"]

NoDecision == [kind |-> "pending", setpoint |-> Absent]
NoInput ==
    [temperature |-> Absent, config |-> BaseConfig, mode |-> "none",
     heat_setpoint |-> Absent, cool_setpoint |-> Absent]

\* HysteresisService.__init__
ServiceInit ==
    /\ now = 0
    /\ stop_event = FALSE
    /\ config = NoConfig
    /\ client_key = Absent
    /\ state = ControllerState
    /\ last_status = NoStatus
    /\ last_error = "none"
    /\ last_action_at = Absent
    /\ last_login_at = Absent
    /\ loop = LoopLocals("init")
    /\ loop2 = OtherLocals("init")
    /\ man = [c \in Callers |-> ManLocals]
    /\ lexec = ExecStart("none")
    /\ lfault = "none"
    /\ snap = SnapLocals
    /\ session = NoSession
    /\ accepted = "none"

\* ------------------------------------------------ service.py: the loop

LoginPcs == {"fetch_login", "fetch_relogin", "apply_login", "apply_relogin"}

\* The threads inside a call of login().
InLogin ==
    (IF loop.pc \in LoginPcs THEN {"loop"} ELSE {})
        \cup {c \in Callers : man[c].pc = "login"}

\* _ensure_client has installed a new RedlinkClient (lines 216-225).
ClientBuilt == session' = [logged |-> FALSE, old |-> InLogin]

\* The login() that thread t called has returned.
LoginReturned(t, ok) ==
    session' = [logged |-> session.logged \/ (ok /\ t \notin session.old),
                old |-> session.old \ {t}]

LoopInCall ==
    loop.pc \in {"fetch_login", "fetch_get", "fetch_relogin", "fetch_reget",
                 "apply_login", "apply_cmd", "apply_relogin", "apply_recmd"}

\* start(): ensure_config, a first _load_config whose failure is recorded, and
\* the thread. ensure_config raises on an unreadable file: no thread then.
Start ==
    /\ loop.pc = "init"
    /\ cfgFile # Corrupt
    /\ config' = cfgFile
    /\ loop' = LoopLocals("check")
    /\ UNCHANGED <<envVars, client_key, state, last_status, last_error,
                   last_action_at, last_login_at, man, lexec, lfault, harnessVars, session, snap, loop2, accepted>>

\* stop(): sets the event (the join changes nothing here).
Stop ==
    /\ ~stop_event
    /\ stop_event' = TRUE
    /\ UNCHANGED <<cfgFile, now, sharedVars, loopVars, man, harnessVars, session, snap, loop2, accepted>>

\* Lines 144-146, 149-151: an unusable configuration is recorded and the
\* cycle sleeps.
SetErrorAndSleep(message) ==
    /\ lfault' = message
    /\ last_error' = message
    /\ loop' = LoopLocals("sleep")

\* Mutant: the failure escapes _run and ends the thread.
RaiseInCycle_uncaught(message) ==
    /\ lfault' = message
    /\ last_error' = last_error
    /\ loop' = LoopLocals("stopped")

\* The except clause of _run: the failure is recorded and the cycle ends in
\* the sleep of line 195.
RaiseInCycle(message) ==
    /\ lfault' = message
    /\ last_error' = message
    /\ loop' = LoopLocals("sleep")

\* while not self._stop_event.is_set(): the loop ends once the event is set.
LoopExit ==
    /\ loop.pc = "check"
    /\ stop_event
    /\ loop' = LoopLocals("stopped")
    /\ UNCHANGED <<envVars, sharedVars, man, lexec, lfault, harnessVars, session, snap, loop2, accepted>>

\* Mutant: a cycle begins without the test of the stop event.
LoopBegin_unguarded ==
    /\ loop.pc = "check"
    /\ IF cfgFile = Corrupt
       THEN /\ RaiseInCycle("config load failed")
            /\ UNCHANGED <<config, client_key, last_login_at>>
       ELSE /\ config' = cfgFile
            /\ IF validate_config(cfgFile) # <<>>
               THEN /\ SetErrorAndSleep(JoinErrors(validate_config(cfgFile)))
                    /\ UNCHANGED <<client_key, last_login_at>>
               ELSE IF ~is_configured(cfgFile)
               THEN /\ SetErrorAndSleep("config missing username/password/device_id")
                    /\ UNCHANGED <<client_key, last_login_at>>
               ELSE /\ loop' = [LoopLocals("fetch") EXCEPT !.cfg = cfgFile]
                    /\ lfault' = "none"
                    /\ UNCHANGED last_error
                    /\ IF client_key # cfgFile.ident
                       THEN client_key' = cfgFile.ident /\ last_login_at' = Absent
                       ELSE UNCHANGED <<client_key, last_login_at>>
    /\ UNCHANGED <<envVars, state, last_status, last_action_at, man, lexec,
                   harnessVars, snap, loop2, accepted>>
    /\ IF client_key' # client_key THEN ClientBuilt ELSE UNCHANGED session

\* The head of a cycle, lines 141-157: _load_config, validate_config,
\* is_configured, _ensure_client.
LoopBegin ==
    /\ loop.pc = "check"
    /\ ~stop_event
    /\ IF cfgFile = Corrupt
       THEN /\ RaiseInCycle("config load failed")
            /\ UNCHANGED <<config, client_key, last_login_at>>
       ELSE /\ config' = cfgFile
            /\ IF validate_config(cfgFile) # <<>>
               THEN /\ SetErrorAndSleep(JoinErrors(validate_config(cfgFile)))
                    /\ UNCHANGED <<client_key, last_login_at>>
               ELSE IF ~is_configured(cfgFile)
               THEN /\ SetErrorAndSleep("config missing username/password/device_id")
                    /\ UNCHANGED <<client_key, last_login_at>>
               ELSE /\ loop' = [LoopLocals("fetch") EXCEPT !.cfg = cfgFile]
                    /\ lfault' = "none"
                    /\ UNCHANGED last_error
                    /\ IF client_key # cfgFile.ident
                       THEN client_key' = cfgFile.ident /\ last_login_at' = Absent
                       ELSE UNCHANGED <<client_key, last_login_at>>
    /\ UNCHANGED <<envVars, state, last_status, last_action_at, man, lexec,
                   harnessVars, snap, loop2, accepted>>
    /\ IF client_key' # client_key THEN ClientBuilt ELSE UNCHANGED session

\* _fetch_status: _login_if_needed decides; a login or get_status begins.
LoopFetchEnter ==
    /\ loop.pc = "fetch"
    /\ IF LoginNeeded(last_login_at, now, loop.cfg)
       THEN /\ loop' = [loop EXCEPT !.pc = "fetch_login", !.now = now]
            /\ lexec' = [ExecStart("fetch") EXCEPT !.logins = 1]
       ELSE /\ loop' = [loop EXCEPT !.pc = "fetch_get"]
            /\ lexec' = [ExecStart("fetch") EXCEPT !.tries = 1]
    /\ UNCHANGED <<envVars, sharedVars, man, lfault, harnessVars, session, snap, loop2, accepted>>

\* Mutant: the status is published as soon as it is fetched, before the
\* cycle's action is applied.
AfterStatus_publishes_early(st) ==
    LET action == IF loop.cfg.control_mode = "schedule"
                  THEN IF _is_hold_active(st)
                       THEN HysteresisAction("cancel", Absent) ELSE NoAction
                  ELSE decide_action(st.temperature, loop.cfg, state,
                                     st.heat_setpoint, st.cool_setpoint)
    IN  IF action.kind # "none"
        THEN /\ loop' = [loop EXCEPT !.pc = "apply", !.status = st,
                                     !.action = action, !.now = Absent]
             /\ last_status' = st
             /\ UNCHANGED last_error
        ELSE /\ loop' = LoopLocals("sleep")
             /\ last_status' = st
             /\ last_error' = "none"

\* Mutant: the decision is taken on the last published status, not on the one
\* just fetched.
AfterStatus_stale(st) ==
    LET action == IF loop.cfg.control_mode = "schedule"
                  THEN IF _is_hold_active(last_status)
                       THEN HysteresisAction("cancel", Absent) ELSE NoAction
                  ELSE decide_action(last_status.temperature, loop.cfg, state,
                                     last_status.heat_setpoint,
                                     last_status.cool_setpoint)
    IN  IF action.kind # "none"
        THEN /\ loop' = [loop EXCEPT !.pc = "apply", !.status = st,
                                     !.action = action, !.now = Absent]
             /\ UNCHANGED <<last_status, last_error>>
        ELSE /\ loop' = LoopLocals("sleep")
             /\ last_status' = st
             /\ last_error' = "none"

\* Mutant: the schedule branch is missing, decide_action is always asked.
AfterStatus_always_decides(st) ==
    LET action == decide_action(st.temperature, loop.cfg, state,
                                st.heat_setpoint, st.cool_setpoint)
    IN  IF action.kind # "none"
        THEN /\ loop' = [loop EXCEPT !.pc = "apply", !.status = st,
                                     !.action = action, !.now = Absent]
             /\ UNCHANGED <<last_status, last_error>>
        ELSE /\ loop' = LoopLocals("sleep")
             /\ last_status' = st
             /\ last_error' = "none"

\* Lines 172-190 on a fetched status: the schedule branch or decide_action;
\* an action goes to _apply_action, otherwise the status is published.
AfterStatus(st) ==
    LET action == IF loop.cfg.control_mode = "schedule"
                  THEN IF _is_hold_active(st)
                       THEN HysteresisAction("cancel", Absent) ELSE NoAction
                  ELSE decide_action(st.temperature, loop.cfg, state,
                                     st.heat_setpoint, st.cool_setpoint)
    IN  IF action.kind # "none"
        THEN /\ loop' = [loop EXCEPT !.pc = "apply", !.status = st,
                                     !.action = action, !.now = Absent]
             /\ UNCHANGED <<last_status, last_error>>
        ELSE /\ loop' = LoopLocals("sleep")
             /\ last_status' = st
             /\ last_error' = "none"

\* login() of _login_if_needed returns inside _fetch_status's try: only a
\* RequestError is caught there.
LoopFetchLoginReturn ==
    /\ loop.pc = "fetch_login"
    /\ \E outcome \in LoginOutcomes :
        CASE outcome = "ok" ->
                /\ last_login_at' = loop.now
                /\ LoginReturned("loop", TRUE)
                /\ loop' = [loop EXCEPT !.pc = "fetch_get", !.now = Absent]
                /\ lexec' = [lexec EXCEPT !.tries = 1]
                /\ UNCHANGED <<last_error, lfault>>
          [] outcome = "RequestError" ->
                /\ loop' = [loop EXCEPT !.pc = "fetch_relogin", !.now = Absent]
                /\ lexec' = [lexec EXCEPT !.try_failed = "login",
                                          !.login_error = outcome,
                                          !.logins = @ + 1, !.forced = @ + 1]
                /\ UNCHANGED <<last_login_at, last_error, lfault>>
                /\ LoginReturned("loop", FALSE)
          [] outcome = "LoginError" ->
                /\ RaiseInCycle("LoginError")
                /\ lexec' = [lexec EXCEPT !.login_error = outcome,
                                          !.result = "raised"]
                /\ UNCHANGED last_login_at
                /\ LoginReturned("loop", FALSE)
    /\ UNCHANGED <<envVars, config, client_key, state, last_status,
                   last_action_at, man, harnessVars, snap, loop2, accepted>>

\* get_status() returns: line 247.
LoopFetchGetReturn(Statuses) ==
    /\ loop.pc = "fetch_get"
    /\ \/ \E st \in Statuses :
            /\ AfterStatus(st)
            /\ lexec' = [lexec EXCEPT !.result = "ok"]
       \/ /\ loop' = [loop EXCEPT !.pc = "fetch_relogin"]
          /\ lexec' = [lexec EXCEPT !.try_failed = "op",
                                    !.logins = @ + 1, !.forced = @ + 1]
          /\ UNCHANGED <<last_status, last_error>>
    /\ UNCHANGED <<envVars, config, client_key, state, last_action_at,
                   last_login_at, man, lfault, harnessVars, session, snap, loop2, accepted>>

\* The forced login() of line 249 returns.
LoopFetchReloginReturn ==
    /\ loop.pc = "fetch_relogin"
    /\ \E outcome \in LoginOutcomes :
        IF outcome = "ok"
        THEN /\ last_login_at' = now
             /\ LoginReturned("loop", TRUE)
             /\ loop' = [loop EXCEPT !.pc = "fetch_reget"]
             /\ lexec' = [lexec EXCEPT !.tries = @ + 1, !.forced_ok = TRUE]
             /\ UNCHANGED <<last_error, lfault>>
        ELSE /\ RaiseInCycle(outcome)
             /\ lexec' = [lexec EXCEPT !.result = "raised"]
             /\ UNCHANGED last_login_at
             /\ LoginReturned("loop", FALSE)
    /\ UNCHANGED <<envVars, config, client_key, state, last_status,
                   last_action_at, man, harnessVars, snap, loop2, accepted>>

\* Mutant: a failed second get_status() is retried like the first.
LoopFetchRegetReturn_again(Statuses) ==
    /\ loop.pc = "fetch_reget"
    /\ \/ /\ \E st \in Statuses : AfterStatus(st)
          /\ lexec' = [lexec EXCEPT !.result = "ok"]
       \/ /\ loop' = [loop EXCEPT !.pc = "fetch_relogin"]
          /\ lexec' = [lexec EXCEPT !.retry_failed = TRUE,
                                    !.logins = @ + 1, !.forced = @ + 1]
          /\ UNCHANGED <<last_status, last_error>>
    /\ UNCHANGED <<envVars, config, client_key, state, last_action_at,
                   last_login_at, man, lfault, harnessVars, session, snap, loop2, accepted>>

\* The second get_status() of line 251 returns.
LoopFetchRegetReturn(Statuses) ==
    /\ loop.pc = "fetch_reget"
    /\ \/ /\ \E st \in Statuses : AfterStatus(st)
          /\ lexec' = [lexec EXCEPT !.result = "ok"]
          /\ UNCHANGED lfault
       \/ /\ RaiseInCycle("RequestError")
          /\ lexec' = [lexec EXCEPT !.retry_failed = TRUE, !.result = "raised"]
          /\ UNCHANGED last_status
    /\ UNCHANGED <<envVars, config, client_key, state, last_action_at,
                   last_login_at, man, harnessVars, session, snap, loop2, accepted>>

\* _apply_action: _login_if_needed decides; a login or the command begins.
LoopApplyEnter ==
    /\ loop.pc = "apply"
    /\ IF LoginNeeded(last_login_at, now, loop.cfg)
       THEN /\ loop' = [loop EXCEPT !.pc = "apply_login", !.now = now]
            /\ lexec' = [ExecStart("apply") EXCEPT !.logins = 1]
       ELSE /\ loop' = [loop EXCEPT !.pc = "apply_cmd"]
            /\ lexec' = [ExecStart("apply") EXCEPT !.tries = 1]
    /\ UNCHANGED <<envVars, sharedVars, man, lfault, harnessVars, session, snap, loop2, accepted>>

\* The command was accepted: _update_state (line 280), then _update_status
\* and _set_error(None) of _run.
ActionApplied ==
    /\ state' = apply_action(state, loop.action)
    /\ last_action_at' = now
    /\ accepted' = loop.action.kind
    /\ last_status' = loop.status
    /\ last_error' = "none"
    /\ loop' = LoopLocals("sleep")

\* Mutant: _apply_action catches only RequestError, as _fetch_status does.
LoopApplyLoginReturn_strict ==
    /\ loop.pc = "apply_login"
    /\ \E outcome \in LoginOutcomes :
        CASE outcome = "ok" ->
                /\ last_login_at' = loop.now
                /\ LoginReturned("loop", TRUE)
                /\ loop' = [loop EXCEPT !.pc = "apply_cmd", !.now = Absent]
                /\ lexec' = [lexec EXCEPT !.tries = 1]
                /\ UNCHANGED <<last_error, lfault>>
          [] outcome = "RequestError" ->
                /\ loop' = [loop EXCEPT !.pc = "apply_relogin", !.now = Absent]
                /\ lexec' = [lexec EXCEPT !.try_failed = "login",
                                          !.login_error = outcome,
                                          !.logins = @ + 1, !.forced = @ + 1]
                /\ UNCHANGED <<last_login_at, last_error, lfault>>
                /\ LoginReturned("loop", FALSE)
          [] outcome = "LoginError" ->
                /\ RaiseInCycle("LoginError")
                /\ lexec' = [lexec EXCEPT !.login_error = outcome,
                                          !.result = "raised"]
                /\ UNCHANGED last_login_at
                /\ LoginReturned("loop", FALSE)
    /\ UNCHANGED <<envVars, config, client_key, state, last_status,
                   last_action_at, man, harnessVars, snap, loop2, accepted>>

\* login() of _login_if_needed returns inside _apply_action's try:
\* RequestError and LoginError are both caught there.
LoopApplyLoginReturn ==
    /\ loop.pc = "apply_login"
    /\ \E outcome \in LoginOutcomes :
        IF outcome = "ok"
        THEN /\ last_login_at' = loop.now
             /\ LoginReturned("loop", TRUE)
             /\ loop' = [loop EXCEPT !.pc = "apply_cmd", !.now = Absent]
             /\ lexec' = [lexec EXCEPT !.tries = 1]
        ELSE /\ loop' = [loop EXCEPT !.pc = "apply_relogin", !.now = Absent]
             /\ lexec' = [lexec EXCEPT !.try_failed = "login",
                                       !.login_error = outcome,
                                       !.logins = @ + 1, !.forced = @ + 1]
             /\ UNCHANGED last_login_at
             /\ LoginReturned("loop", FALSE)
    /\ UNCHANGED <<envVars, config, client_key, state, last_status, last_error,
                   last_action_at, man, lfault, harnessVars, snap, loop2, accepted>>

\* The command of lines 259-266 returns.
LoopApplyCmdReturn ==
    /\ loop.pc = "apply_cmd"
    /\ \/ /\ ActionApplied
          /\ lexec' = [lexec EXCEPT !.result = "ok"]
       \/ /\ loop' = [loop EXCEPT !.pc = "apply_relogin"]
          /\ lexec' = [lexec EXCEPT !.try_failed = "op",
                                    !.logins = @ + 1, !.forced = @ + 1]
          /\ UNCHANGED <<state, last_status, last_error, last_action_at, accepted>>
    /\ UNCHANGED <<envVars, config, client_key, last_login_at, man, lfault,
                   harnessVars, session, snap, loop2>>

\* The forced login() of line 270 returns.
LoopApplyReloginReturn ==
    /\ loop.pc = "apply_relogin"
    /\ \E outcome \in LoginOutcomes :
        IF outcome = "ok"
        THEN /\ last_login_at' = now
             /\ LoginReturned("loop", TRUE)
             /\ loop' = [loop EXCEPT !.pc = "apply_recmd"]
             /\ lexec' = [lexec EXCEPT !.tries = @ + 1, !.forced_ok = TRUE]
             /\ UNCHANGED <<last_error, lfault>>
        ELSE /\ RaiseInCycle(outcome)
             /\ lexec' = [lexec EXCEPT !.result = "raised"]
             /\ UNCHANGED last_login_at
             /\ LoginReturned("loop", FALSE)
    /\ UNCHANGED <<envVars, config, client_key, state, last_status,
                   last_action_at, man, harnessVars, snap, loop2, accepted>>

\* The second command of lines 272-279 returns.
LoopApplyRecmdReturn ==
    /\ loop.pc = "apply_recmd"
    /\ \/ /\ ActionApplied
          /\ lexec' = [lexec EXCEPT !.result = "ok"]
          /\ UNCHANGED lfault
       \/ /\ RaiseInCycle("RequestError")
          /\ lexec' = [lexec EXCEPT !.retry_failed = TRUE, !.result = "raised"]
          /\ UNCHANGED <<state, last_status, last_action_at, accepted>>
    /\ UNCHANGED <<envVars, config, client_key, last_login_at, man, harnessVars, session, snap, loop2>>

\* _sleep returns (the timeout passed, or the event was set).
LoopWake ==
    /\ loop.pc = "sleep"
    /\ loop' = LoopLocals("check")
    /\ lfault' = "none"
    /\ lexec' = ExecStart("none")
    /\ UNCHANGED <<envVars, sharedVars, man, harnessVars, session, snap, loop2, accepted>>

\* ------------------------------------------- service.py: a further start()

\* start() called again: lines 33-54 test neither self._thread nor the
\* event; the configuration is loaded and another thread is made to run
\* _run.
StartAgain ==
    /\ loop.pc # "init"
    /\ loop2.pc = "init"
    /\ cfgFile # Corrupt
    /\ config' = cfgFile
    /\ loop2' = OtherLocals("check")
    /\ UNCHANGED <<envVars, client_key, state, last_status, last_error,
                   last_action_at, last_login_at, loop, man, lexec, lfault,
                   harnessVars, session, snap, accepted>>

\* Line 139 in that thread, the event set.
OtherExit ==
    /\ loop2.pc = "check"
    /\ stop_event
    /\ loop2' = OtherLocals("stopped")
    /\ UNCHANGED <<envVars, sharedVars, loopVars, man, harnessVars, session, snap, accepted>>

\* Lines 139-153 in that thread: the configuration is loaded and checked,
\* the client ensured.
OtherBegin ==
    /\ loop2.pc = "check"
    /\ ~stop_event
    /\ IF cfgFile = Corrupt
       THEN /\ last_error' = "config load failed"
            /\ loop2' = OtherLocals("sleep")
            /\ UNCHANGED <<config, client_key, last_login_at, session>>
       ELSE /\ config' = cfgFile
            /\ IF validate_config(cfgFile) # <<>>
               THEN /\ last_error' = JoinErrors(validate_config(cfgFile))
                    /\ loop2' = OtherLocals("sleep")
                    /\ UNCHANGED <<client_key, last_login_at, session>>
               ELSE IF ~is_configured(cfgFile)
               THEN /\ last_error' = "config missing username/password/device_id"
                    /\ loop2' = OtherLocals("sleep")
                    /\ UNCHANGED <<client_key, last_login_at, session>>
               ELSE /\ loop2' = [pc |-> "cycle", cfg |-> cfgFile]
                    /\ UNCHANGED last_error
                    /\ IF client_key # cfgFile.ident
                       THEN /\ client_key' = cfgFile.ident
                            /\ last_login_at' = Absent
                            /\ ClientBuilt
                       ELSE UNCHANGED <<client_key, last_login_at, session>>
    /\ UNCHANGED <<envVars, state, last_status, last_action_at, loopVars, man,
                   harnessVars, snap, accepted>>

\* Lines 159-190 in that thread, taken in one step with every device call
\* succeeding: the login if one is due, get_status, the decision, the
\* command and _update_state if there is an action, the publication.
OtherCycle(Statuses) ==
    /\ loop2.pc = "cycle"
    /\ \E st \in Statuses :
         LET action == IF loop2.cfg.control_mode = "schedule"
                       THEN IF _is_hold_active(st)
                            THEN HysteresisAction("cancel", Absent) ELSE NoAction
                       ELSE decide_action(st.temperature, loop2.cfg, state,
                                          st.heat_setpoint, st.cool_setpoint)
         IN  /\ state' = apply_action(state, action)
             /\ last_action_at' = IF action.kind # "none" THEN now
                                  ELSE last_action_at
             /\ last_status' = st
             /\ accepted' = IF action.kind # "none" THEN action.kind
                            ELSE accepted
    /\ IF LoginNeeded(last_login_at, now, loop2.cfg)
       THEN last_login_at' = now /\ LoginReturned("loop2", TRUE)
       ELSE UNCHANGED <<last_login_at, session>>
    /\ last_error' = "none"
    /\ loop2' = OtherLocals("sleep")
    /\ UNCHANGED <<envVars, config, client_key, loopVars, man, harnessVars, snap>>

\* _sleep returns in that thread.
OtherWake ==
    /\ loop2.pc = "sleep"
    /\ loop2' = OtherLocals("check")
    /\ UNCHANGED <<envVars, sharedVars, loopVars, man, harnessVars, session, snap, accepted>>

\* ------------------------------------------------------ the environment

Tick ==
    /\ now < MaxNow
    /\ now' = now + 1
    /\ UNCHANGED <<cfgFile, stop_event, sharedVars, loopVars, man, harnessVars, session, snap, loop2, accepted>>

\* The file is rewritten (POST /api/config, or an editor).
ConfigWrite(Configs) ==
    /\ \E c \in Configs : c # cfgFile /\ cfgFile' = c
    /\ UNCHANGED <<now, stop_event, sharedVars, loopVars, man, harnessVars, session, snap, loop2, accepted>>

\* ------------------------------------- service.py: apply_manual_command

ManInCall(c) == man[c].pc \in {"login", "cmd"}

ManualDone(c, cmd, res) ==
    man' = [man EXCEPT ![c] = [pc |-> "done", cmd |-> cmd, now |-> Absent,
                               res |-> res]]

\* Lines 107-136: the device call of a known command begins; an unknown
\* command raises ValueError.
ManualDispatch(c, cmd) ==
    IF cmd \in {"heat", "cool", "fan", "cancel"}
    THEN man' = [man EXCEPT ![c] = [pc |-> "cmd", cmd |-> cmd, now |-> Absent,
                                    res |-> "none"]]
    ELSE ManualDone(c, cmd, "ValueError")

\* Mutant: a rebuilt client keeps the login time of the one it replaces.
ManualBegin_keeps_login(c) ==
    /\ man[c].pc \in {"idle", "done"}
    /\ \E cmd \in Commands :
        IF cfgFile = Corrupt
        THEN /\ ManualDone(c, cmd, "config load failed")
             /\ UNCHANGED <<config, client_key, last_login_at>>
        ELSE /\ config' = cfgFile
             /\ IF ~is_configured(cfgFile)
                THEN /\ ManualDone(c, cmd, "ValueError")
                     /\ UNCHANGED <<client_key, last_login_at>>
                ELSE LET last == last_login_at
                     IN  /\ client_key' = cfgFile.ident
                         /\ last_login_at' = last
                         /\ IF LoginNeeded(last, now, cfgFile)
                            THEN man' = [man EXCEPT ![c] =
                                           [pc |-> "login", cmd |-> cmd,
                                            now |-> now, res |-> "none"]]
                            ELSE ManualDispatch(c, cmd)
    /\ UNCHANGED <<envVars, state, last_status, last_error, last_action_at,
                   loopVars, harnessVars, snap, loop2, accepted>>
    /\ IF client_key' # client_key THEN ClientBuilt ELSE UNCHANGED session

\* Lines 97-104: _load_config, is_configured, _ensure_client and the test of
\* _login_if_needed; a login or the command's device call begins.
ManualBegin(c) ==
    /\ man[c].pc \in {"idle", "done"}
    /\ \E cmd \in Commands :
        IF cfgFile = Corrupt
        THEN /\ ManualDone(c, cmd, "config load failed")
             /\ UNCHANGED <<config, client_key, last_login_at>>
        ELSE /\ config' = cfgFile
             /\ IF ~is_configured(cfgFile)
                THEN /\ ManualDone(c, cmd, "ValueError")
                     /\ UNCHANGED <<client_key, last_login_at>>
                ELSE LET last == IF client_key # cfgFile.ident
                                 THEN Absent ELSE last_login_at
                     IN  /\ client_key' = cfgFile.ident
                         /\ last_login_at' = last
                         /\ IF LoginNeeded(last, now, cfgFile)
                            THEN man' = [man EXCEPT ![c] =
                                           [pc |-> "login", cmd |-> cmd,
                                            now |-> now, res |-> "none"]]
                            ELSE ManualDispatch(c, cmd)
    /\ UNCHANGED <<envVars, state, last_status, last_error, last_action_at,
                   loopVars, harnessVars, snap, loop2, accepted>>
    /\ IF client_key' # client_key THEN ClientBuilt ELSE UNCHANGED session

\* login() of _login_if_needed returns; its failure goes to the caller.
ManualLoginReturn(c) ==
    /\ man[c].pc = "login"
    /\ \E outcome \in LoginOutcomes :
        IF outcome = "ok"
        THEN /\ last_login_at' = man[c].now
             /\ LoginReturned(c, TRUE)
             /\ ManualDispatch(c, man[c].cmd)
        ELSE /\ ManualDone(c, man[c].cmd, outcome)
             /\ UNCHANGED last_login_at
             /\ LoginReturned(c, FALSE)
    /\ UNCHANGED <<envVars, config, client_key, state, last_status, last_error,
                   last_action_at, loopVars, harnessVars, snap, loop2, accepted>>

\* The command's device call returns: _update_state for heat, cool and
\* cancel; a failure goes to the caller.
ManualCmdReturn(c) ==
    /\ man[c].pc = "cmd"
    /\ \E outcome \in CallOutcomes :
        IF outcome = "ok"
        THEN /\ ManualDone(c, man[c].cmd, "ok")
             /\ IF man[c].cmd \in {"heat", "cool", "cancel"}
                THEN /\ state' = apply_action(state,
                                     HysteresisAction(man[c].cmd, Absent))
                     /\ last_action_at' = now
                     /\ accepted' = man[c].cmd
                ELSE UNCHANGED <<state, last_action_at, accepted>>
        ELSE /\ ManualDone(c, man[c].cmd, outcome)
             /\ UNCHANGED <<state, last_action_at, accepted>>
    /\ UNCHANGED <<envVars, config, client_key, last_status, last_error,
                   last_login_at, loopVars, harnessVars, session, snap, loop2>>

\* ------------------------ service.py: _update_state, store by store

\* apply_action and _update_state take no lock: the stores of state.mode
\* (hysteresis.py:83-88), of state.last_action (89) and of _last_action_at
\* (service.py:284) are separate steps of the thread that makes them.
StoreMode(action) ==
    state' = [state EXCEPT !.mode = apply_action(state, action).mode]

StoreLastAction(action) ==
    state' = [state EXCEPT !.last_action = apply_action(state, action).last_action]

\* The command of lines 259-266 returns; on success _update_state begins.
LoopCmdReturn ==
    /\ loop.pc = "apply_cmd"
    /\ \/ /\ loop' = [loop EXCEPT !.pc = "store_mode"]
          /\ lexec' = [lexec EXCEPT !.result = "ok"]
          /\ accepted' = loop.action.kind
       \/ /\ loop' = [loop EXCEPT !.pc = "apply_relogin"]
          /\ lexec' = [lexec EXCEPT !.try_failed = "op",
                                    !.logins = @ + 1, !.forced = @ + 1]
          /\ UNCHANGED accepted
    /\ UNCHANGED <<envVars, sharedVars, man, lfault, harnessVars, session, snap, loop2>>

\* Mutant: _update_state runs whether or not the second command succeeded.
LoopRecmdReturn_updates ==
    /\ loop.pc = "apply_recmd"
    /\ \/ /\ loop' = [loop EXCEPT !.pc = "store_mode"]
          /\ lexec' = [lexec EXCEPT !.result = "ok"]
          /\ accepted' = loop.action.kind
       \/ /\ loop' = [loop EXCEPT !.pc = "store_mode"]
          /\ lexec' = [lexec EXCEPT !.retry_failed = TRUE, !.result = "raised"]
          /\ UNCHANGED accepted
    /\ UNCHANGED <<envVars, sharedVars, man, lfault, harnessVars, session, snap, loop2>>

\* The second command of lines 272-279 returns; on success _update_state
\* begins.
LoopRecmdReturn ==
    /\ loop.pc = "apply_recmd"
    /\ \/ /\ loop' = [loop EXCEPT !.pc = "store_mode"]
          /\ lexec' = [lexec EXCEPT !.result = "ok"]
          /\ accepted' = loop.action.kind
          /\ UNCHANGED <<lfault, last_error>>
       \/ /\ RaiseInCycle("RequestError")
          /\ lexec' = [lexec EXCEPT !.retry_failed = TRUE, !.result = "raised"]
          /\ UNCHANGED accepted
    /\ UNCHANGED <<envVars, config, client_key, state, last_status,
                   last_action_at, last_login_at, man, harnessVars, session, snap, loop2>>

LoopStoreMode ==
    /\ loop.pc = "store_mode"
    /\ StoreMode(loop.action)
    /\ loop' = [loop EXCEPT !.pc = "store_last_action"]
    /\ UNCHANGED <<envVars, config, client_key, last_status, last_error,
                   last_action_at, last_login_at, man, lexec, lfault,
                   harnessVars, session, snap, loop2, accepted>>

LoopStoreLastAction ==
    /\ loop.pc = "store_last_action"
    /\ StoreLastAction(loop.action)
    /\ loop' = [loop EXCEPT !.pc = "store_at"]
    /\ UNCHANGED <<envVars, config, client_key, last_status, last_error,
                   last_action_at, last_login_at, man, lexec, lfault,
                   harnessVars, session, snap, loop2, accepted>>

LoopStoreAt ==
    /\ loop.pc = "store_at"
    /\ last_action_at' = now
    /\ loop' = [loop EXCEPT !.pc = "publish"]
    /\ UNCHANGED <<envVars, config, client_key, state, last_status, last_error,
                   last_login_at, man, lexec, lfault, harnessVars, session, snap, loop2, accepted>>

\* _update_status and _set_error(None) of _run, lines 189-190.
LoopPublish ==
    /\ loop.pc = "publish"
    /\ last_status' = loop.status
    /\ last_error' = "none"
    /\ loop' = LoopLocals("sleep")
    /\ UNCHANGED <<envVars, config, client_key, state, last_action_at,
                   last_login_at, man, lexec, lfault, harnessVars, session, snap, loop2, accepted>>

\* Mutant: the fan command too goes on to _update_state.
ManualCallReturn_fan_updates(c) ==
    /\ man[c].pc = "cmd"
    /\ \E outcome \in CallOutcomes :
        IF outcome = "ok" /\ man[c].cmd \in {"heat", "cool", "cancel", "fan"}
        THEN /\ man' = [man EXCEPT ![c].pc = "store_mode"]
             /\ accepted' = IF man[c].cmd = "fan" THEN accepted ELSE man[c].cmd
        ELSE /\ ManualDone(c, man[c].cmd, outcome)
             /\ UNCHANGED accepted
    /\ UNCHANGED <<envVars, sharedVars, loopVars, harnessVars, session, snap, loop2>>

\* The command's device call returns (lines 113, 123, 128, 132): heat, cool
\* and cancel go on to _update_state, fan returns, a failure goes to the
\* caller.
ManualCallReturn(c) ==
    /\ man[c].pc = "cmd"
    /\ \E outcome \in CallOutcomes :
        IF outcome = "ok" /\ man[c].cmd \in {"heat", "cool", "cancel"}
        THEN /\ man' = [man EXCEPT ![c].pc = "store_mode"]
             /\ accepted' = man[c].cmd
        ELSE /\ ManualDone(c, man[c].cmd, outcome)
             /\ UNCHANGED accepted
    /\ UNCHANGED <<envVars, sharedVars, loopVars, harnessVars, session, snap, loop2>>

ManualStoreMode(c) ==
    /\ man[c].pc = "store_mode"
    /\ StoreMode(HysteresisAction(man[c].cmd, Absent))
    /\ man' = [man EXCEPT ![c].pc = "store_last_action"]
    /\ UNCHANGED <<envVars, config, client_key, last_status, last_error,
                   last_action_at, last_login_at, loopVars, harnessVars, session, snap, loop2, accepted>>

ManualStoreLastAction(c) ==
    /\ man[c].pc = "store_last_action"
    /\ StoreLastAction(HysteresisAction(man[c].cmd, Absent))
    /\ man' = [man EXCEPT ![c].pc = "store_at"]
    /\ UNCHANGED <<envVars, config, client_key, last_status, last_error,
                   last_action_at, last_login_at, loopVars, harnessVars, session, snap, loop2, accepted>>

ManualStoreAt(c) ==
    /\ man[c].pc = "store_at"
    /\ last_action_at' = now
    /\ ManualDone(c, man[c].cmd, "ok")
    /\ UNCHANGED <<envVars, config, client_key, state, last_status, last_error,
                   last_login_at, loopVars, harnessVars, session, snap, loop2, accepted>>

\* ------------------------------------------------ server.py: command

\* The actions of the requests that the handler answers with 400 before it
\* calls the service: an action that is none of the four, heat or cool
\* without a setpoint, fan without a mode.
RejectedActions == {"unknown", "heat", "cool", "fan"}

\* Mutant: the handler validates after the service has logged in.
CommandRejected_after_login(c) ==
    /\ man[c].pc \in {"idle", "done"}
    /\ \E a \in RejectedActions : ManualDone(c, a, "HTTP 400")
    /\ last_login_at' = now
    /\ UNCHANGED <<envVars, config, client_key, state, last_status, last_error,
                   last_action_at, loopVars, harnessVars, snap, loop2, accepted, session>>

\* Lines 67-76: the request is rejected; apply_manual_command is not called.
CommandRejected(c) ==
    /\ man[c].pc \in {"idle", "done"}
    /\ \E a \in RejectedActions : ManualDone(c, a, "HTTP 400")
    /\ UNCHANGED <<envVars, sharedVars, loopVars, harnessVars, snap, loop2, accepted, session>>

\* ------------------------------------------- service.py: get_snapshot

\* A thread has stored a mode and not yet the rest of its _update_state.
Updating ==
    \/ loop.pc \in {"store_last_action", "store_at"}
    \/ \E c \in Callers : man[c].pc \in {"store_last_action", "store_at"}

\* What get_snapshot returns as the controller part.
Returned == [mode |-> snap.mode, last_action |-> state.last_action,
             last_action_at |-> snap.last_action_at]

\* Lines 62-67, under the lock: _last_action_at is read, and a reference
\* to the state object is taken.
SnapshotBegin ==
    /\ snap.pc = "idle"
    /\ snap' = [pc |-> "mode", mode |-> "none",
                last_action_at |-> last_action_at, whole |-> ~Updating]
    /\ UNCHANGED <<envVars, sharedVars, loopVars, man, harnessVars, session, loop2, accepted>>

\* asdict(state), line 82, the lock released: the fields are read in the
\* order of their declaration, mode first.
SnapshotReadMode ==
    /\ snap.pc = "mode"
    /\ snap' = [snap EXCEPT !.pc = "last_action", !.mode = state.mode,
                            !.whole = @ /\ ~Updating]
    /\ UNCHANGED <<envVars, sharedVars, loopVars, man, harnessVars, session, loop2, accepted>>

\* asdict reads last_action and get_snapshot returns Returned.
SnapshotReturn ==
    /\ snap.pc = "last_action"
    /\ snap' = SnapLocals
    /\ UNCHANGED <<envVars, sharedVars, loopVars, man, harnessVars, session, loop2, accepted>>

\* ------------------------------------------------------- specifications

HarnessIdle == din = NoInput /\ dout = NoDecision

LoopNext(Statuses) ==
    \/ Start
    \/ Stop
    \/ LoopExit
    \/ LoopBegin
    \/ LoopFetchEnter
    \/ LoopFetchLoginReturn
    \/ LoopFetchGetReturn(Statuses)
    \/ LoopFetchReloginReturn
    \/ LoopFetchRegetReturn(Statuses)
    \/ LoopApplyEnter
    \/ LoopApplyLoginReturn
    \/ LoopApplyCmdReturn
    \/ LoopApplyReloginReturn
    \/ LoopApplyRecmdReturn
    \/ LoopWake

\* The interleaving model: the loop thread, manual commands and the file.
Init == ServiceInit /\ cfgFile \in SharedConfigs /\ HarnessIdle

Next ==
    \/ LoopNext(SharedStatuses)
    \/ ConfigWrite(SharedConfigs)
    \/ \E c \in Callers : ManualBegin(c)
    \/ \E c \in Callers : ManualLoginReturn(c)
    \/ \E c \in Callers : ManualCmdReturn(c)

Spec == Init /\ [][Next]_vars

\* The loop model: the loop thread alone, the clock and every kind of file.
InitLoop == ServiceInit /\ cfgFile \in LoopConfigs \ {Corrupt} /\ HarnessIdle

NextLoop ==
    \/ LoopNext(LoopStatuses)
    \/ Tick
    \/ ConfigWrite(LoopConfigs)

SpecLoop == InitLoop /\ [][NextLoop]_vars

\* The hold model: the loop thread alone over every temperature band.
InitHold == ServiceInit /\ cfgFile \in HoldConfigs /\ HarnessIdle

NextHold ==
    \/ LoopNext(HoldStatuses)
    \/ Tick
    \/ ConfigWrite(HoldConfigs)

SpecHold == InitHold /\ [][NextHold]_vars

\* decide_action on every argument tuple of the harness.
Temps == 0..MaxT
OptTemps == Temps \cup {Absent}

DecideConfigs ==
    [hysteresis_enabled : BOOLEAN, enable_heat : BOOLEAN, enable_cool : BOOLEAN,
     heat_on_below : Temps, heat_off_at : Temps,
     cool_on_above : Temps, cool_off_at : Temps]

DecideInputs ==
    [temperature : OptTemps, config : DecideConfigs, mode : Modes,
     heat_setpoint : OptTemps, cool_setpoint : OptTemps]

InitDecide ==
    /\ ServiceInit
    /\ cfgFile = BaseConfig
    /\ din \in DecideInputs
    /\ dout = NoDecision

DecideCall ==
    /\ dout = NoDecision
    /\ dout' = decide_action(din.temperature, din.config,
                             [mode |-> din.mode, last_action |-> "none"],
                             din.heat_setpoint, din.cool_setpoint)
    /\ UNCHANGED <<din, envVars, sharedVars, loopVars, man, snap, loop2, accepted, session>>

NextDecide == DecideCall

SpecDecide == InitDecide /\ [][NextDecide]_vars

\* ------------------------------------------- decide_action: the claims

Decided == dout # NoDecision
Present == din.temperature # Absent
Enabled == din.config.hysteresis_enabled

\* The four threshold rules of decide_action, on the harness's arguments.
HeatStartFires ==
    /\ din.config.enable_heat
    /\ din.temperature <= din.config.heat_on_below
    /\ din.heat_setpoint # din.config.heat_off_at
CoolStartFires ==
    /\ din.config.enable_cool
    /\ din.temperature >= din.config.cool_on_above
    /\ din.cool_setpoint # din.config.cool_off_at
HeatIdleFires ==
    /\ din.config.enable_heat
    /\ din.temperature >= din.config.heat_off_at
    /\ din.heat_setpoint # din.config.heat_on_below
CoolIdleFires ==
    /\ din.config.enable_cool
    /\ din.temperature <= din.config.cool_off_at
    /\ din.cool_setpoint # din.config.cool_on_above

HeatResult == HysteresisAction("heat", din.config.heat_off_at)
CoolResult == HysteresisAction("cool", din.config.cool_off_at)
HeatIdleResult == HysteresisAction("heat-idle", din.config.heat_on_below)
CoolIdleResult == HysteresisAction("cool-idle", din.config.cool_on_above)
CancelResult == HysteresisAction("cancel", Absent)

C4_Case ==
    /\ Decided /\ Present /\ Enabled
    /\ din.config.enable_heat
    /\ din.mode = "none"
    /\ din.temperature <= din.config.heat_on_below

C5_Case ==
    /\ Decided /\ Present /\ Enabled
    /\ din.config.enable_cool
    /\ din.mode = "none"
    /\ din.temperature >= din.config.cool_on_above

\* C5 as stated: for t >= cool_on_above with cooling and hysteresis enabled and
\* mode None, decide returns Cool(cool_off_at) whatever the device reports.
C5_Original == C5_Case => dout = CoolResult

\* C5, amended: for t >= cool_on_above with cooling and hysteresis enabled and
\* mode None, decide returns Cool(cool_off_at) exactly when the reported cool
\* setpoint is absent or differs from cool_off_at and the heat-start rule does
\* not fire first (heating enabled, t <= heat_on_below, reported heat setpoint
\* not heat_off_at).
C5_CoolStart ==
    C5_Case => (dout = CoolResult <=>
                    /\ din.cool_setpoint # din.config.cool_off_at
                    /\ ~HeatStartFires)

C5_Witness ==
    /\ C5_Case
    /\ din.cool_setpoint = Absent
    /\ din.temperature = din.config.cool_on_above
    /\ din.config.enable_heat
    /\ din.config.heat_on_below < din.temperature
    /\ dout = CoolResult

C6_Case ==
    /\ Decided /\ Present
    /\ din.mode = "heat"
    /\ din.config.enable_heat
    /\ din.temperature < din.config.heat_off_at

\* C6 as stated: with mode Heat, heating enabled and t < heat_off_at, decide
\* returns none whatever the device reports.
C6_Original == C6_Case => dout = NoAction

\* C6, amended: with mode Heat, heating enabled and t < heat_off_at, decide
\* returns none exactly when no threshold rule fires on the reported
\* setpoints: hysteresis is disabled, or the heat-start, cool-start and
\* cool-idle rules all stay silent and it is not the case that cooling is
\* disabled while the device reports cool_off_at without heat_off_at.
C6_HeatHoldQuiet ==
    C6_Case => (dout = NoAction <=>
                    \/ ~Enabled
                    \/ /\ ~HeatStartFires
                       /\ ~CoolStartFires
                       /\ ~CoolIdleFires
                       /\ ~ /\ ~din.config.enable_cool
                            /\ din.cool_setpoint = din.config.cool_off_at
                            /\ din.heat_setpoint # din.config.heat_off_at)

C6_Witness ==
    /\ C6_Case /\ Enabled
    /\ din.config.enable_cool
    /\ din.temperature <= din.config.heat_on_below
    /\ din.heat_setpoint = din.config.heat_off_at
    /\ din.cool_setpoint = din.config.cool_on_above
    /\ din.config.cool_on_above > din.config.cool_off_at
    /\ dout = NoAction

C8_HeatCase ==
    /\ Decided /\ Present /\ Enabled
    /\ din.mode = "none"
    /\ din.config.enable_heat
    /\ din.heat_setpoint = din.config.heat_off_at
    /\ din.temperature >= din.config.heat_off_at

C8_CoolCase ==
    /\ Decided /\ Present /\ Enabled
    /\ din.mode = "none"
    /\ din.config.enable_cool
    /\ din.cool_setpoint = din.config.cool_off_at
    /\ din.temperature <= din.config.cool_off_at

\* C8 as stated: with mode None, the reported heat setpoint at heat_off_at and
\* t >= heat_off_at, decide returns HeatIdle(heat_on_below); mirrored for
\* cooling.
C8_Original ==
    /\ C8_HeatCase => dout = HeatIdleResult
    /\ C8_CoolCase => dout = CoolIdleResult

\* C8, amended: in the heat case decide returns HeatIdle(heat_on_below)
\* exactly when heat_on_below differs from heat_off_at and the cool-start rule
\* does not fire first; in the cool case it returns CoolIdle(cool_on_above)
\* exactly when cool_on_above differs from cool_off_at and neither the
\* heat-start nor the heat-idle rule fires first.
C8_Recovery ==
    /\ C8_HeatCase => (dout = HeatIdleResult <=>
                          /\ din.config.heat_on_below # din.config.heat_off_at
                          /\ ~CoolStartFires)
    /\ C8_CoolCase => (dout = CoolIdleResult <=>
                          /\ din.config.cool_on_above # din.config.cool_off_at
                          /\ ~HeatStartFires
                          /\ ~HeatIdleFires)

C8_Witness ==
    /\ C8_HeatCase
    /\ din.config.heat_on_below < din.config.heat_off_at
    /\ din.temperature = din.config.heat_off_at
    /\ din.config.enable_cool
    /\ dout = HeatIdleResult

C9_HeatCase ==
    /\ Decided /\ Present
    /\ din.mode = "heat"
    /\ din.config.enable_heat
    /\ din.temperature >= din.config.heat_off_at

C9_CoolCase ==
    /\ Decided /\ Present
    /\ din.mode = "cool"
    /\ din.config.enable_cool
    /\ din.temperature <= din.config.cool_off_at

\* C9 as stated: with mode Heat, heating enabled and t >= heat_off_at decide
\* returns HeatIdle(heat_on_below); with mode Cool, cooling enabled and
\* t <= cool_off_at it returns CoolIdle(cool_on_above).
C9_Original ==
    /\ C9_HeatCase => dout = HeatIdleResult
    /\ C9_CoolCase => dout = CoolIdleResult

\* C9, amended: in the heat case decide returns HeatIdle(heat_on_below)
\* exactly when hysteresis is enabled, the reported heat setpoint is absent or
\* differs from heat_on_below, and neither start rule fires first; in the cool
\* case it returns CoolIdle(cool_on_above) exactly when hysteresis is enabled,
\* the reported cool setpoint is absent or differs from cool_on_above, and
\* neither start rule nor the heat-idle rule fires first.
C9_IdleAtTarget ==
    /\ C9_HeatCase => (dout = HeatIdleResult <=>
                          /\ Enabled
                          /\ din.heat_setpoint # din.config.heat_on_below
                          /\ ~HeatStartFires
                          /\ ~CoolStartFires)
    /\ C9_CoolCase => (dout = CoolIdleResult <=>
                          /\ Enabled
                          /\ din.cool_setpoint # din.config.cool_on_above
                          /\ ~HeatStartFires
                          /\ ~CoolStartFires
                          /\ ~HeatIdleFires)

C9_Witness ==
    /\ C9_HeatCase /\ Enabled
    /\ din.heat_setpoint = Absent
    /\ din.config.heat_on_below < din.config.heat_off_at
    /\ din.temperature = din.config.heat_off_at
    /\ dout = HeatIdleResult

C10_HeatCase ==
    /\ Decided /\ Present /\ Enabled
    /\ din.mode = "heat"
    /\ ~din.config.enable_heat

C10_CoolCase ==
    /\ Decided /\ Present /\ Enabled
    /\ din.mode = "cool"
    /\ ~din.config.enable_cool

\* C10 as stated: with a present temperature and hysteresis enabled, mode Heat
\* with heating disabled (or mode Cool with cooling disabled) makes decide
\* return Cancel whatever the temperature and the reported setpoints.
C10_Original ==
    /\ C10_HeatCase => dout = CancelResult
    /\ C10_CoolCase => dout = CancelResult

\* C10, amended: with mode Heat and heating disabled decide returns Cancel
\* exactly when neither cooling rule fires and the reported setpoints leave a
\* disabled hold standing: the heat setpoint is heat_off_at, or it is absent
\* and the cool setpoint is not cool_off_at, or cooling is disabled and the
\* cool setpoint is cool_off_at. Mirrored for mode Cool with cooling disabled.
C10_CancelDisabled ==
    /\ C10_HeatCase =>
         (dout = CancelResult <=>
            /\ ~CoolStartFires
            /\ ~CoolIdleFires
            /\ \/ din.heat_setpoint = din.config.heat_off_at
               \/ /\ din.heat_setpoint = Absent
                  /\ din.cool_setpoint # din.config.cool_off_at
               \/ /\ ~din.config.enable_cool
                  /\ din.cool_setpoint = din.config.cool_off_at)
    /\ C10_CoolCase =>
         (dout = CancelResult <=>
            /\ ~HeatStartFires
            /\ ~HeatIdleFires
            /\ \/ din.cool_setpoint = din.config.cool_off_at
               \/ /\ din.cool_setpoint = Absent
                  /\ din.heat_setpoint # din.config.heat_off_at
               \/ /\ ~din.config.enable_heat
                  /\ din.heat_setpoint = din.config.heat_off_at)

C10_Witness ==
    /\ C10_HeatCase
    /\ din.config.enable_cool
    /\ din.heat_setpoint = Absent
    /\ din.cool_setpoint = din.config.cool_on_above
    /\ dout = CancelResult

\* ------------------------------------------------- the loop: the claims

\* The first attempt of the current device operation of the loop has failed:
\* in the try block, or in the handler when the try block's login failed.
FirstAttemptFailed ==
    \/ lexec.try_failed = "op"
    \/ lexec.try_failed = "login" /\ lexec.retry_failed

\* C1 as stated: when the first attempt of a device operation of the loop
\* fails with a transport error, login is invoked exactly once more (forced)
\* and the operation is attempted exactly once more; a second failure ends the
\* cycle, with no third attempt and no further login.
C1_Original ==
    /\ lexec.tries <= 2
    /\ lexec.forced <= 1
    /\ (FirstAttemptFailed /\ lexec.result # "running") =>
          lexec.forced = 1 /\ lexec.tries = 2
    /\ (lexec.try_failed = "op" /\ lexec.retry_failed) =>
          /\ lexec.result = "raised"
          /\ loop.pc = "sleep" /\ last_error = "RequestError"

\* C1, amended: a device operation of the loop makes at most one forced login
\* and at most two attempts. When the attempt in the try block fails with a
\* transport error, login is invoked exactly once more (forced); the operation
\* is attempted exactly once more if that login succeeds, and not again if it
\* fails, the login's failure ending the cycle. When the login of the try
\* block fails with a caught error, the forced login comes first and the
\* operation is attempted once, without a retry. A failure of the attempt in
\* the handler ends the cycle as its recorded error.
C1_RetryOnce ==
    /\ lexec.tries <= 2
    /\ lexec.forced <= 1
    /\ lexec.logins <= 2
    /\ lexec.try_failed # "none" => lexec.forced = 1
    /\ (lexec.try_failed = "op" /\ lexec.result # "running") =>
          IF lexec.forced_ok
          THEN lexec.tries = 2
          ELSE /\ lexec.tries = 1
               /\ lexec.result = "raised"
               /\ loop.pc = "sleep"
               /\ last_error \in {"RequestError", "LoginError"}
    /\ (lexec.try_failed = "login" /\ lexec.result # "running") =>
          IF lexec.forced_ok
          THEN lexec.tries = 1
          ELSE lexec.tries = 0 /\ lexec.result = "raised"
    /\ lexec.retry_failed =>
          /\ lexec.forced_ok
          /\ lexec.result = "raised"
          /\ loop.pc = "sleep" /\ last_error = "RequestError"

C1_Witness ==
    /\ lexec.op = "apply"
    /\ lexec.try_failed = "op" /\ lexec.forced_ok /\ lexec.retry_failed
    /\ lexec.tries = 2 /\ lexec.forced = 1
    /\ loop.pc = "sleep"

\* C3: the loop thread ends only once the stop event is set; a failure in a
\* cycle (unreadable or invalid or unidentified configuration, login, status
\* fetch, command) is recorded as the last error and the cycle goes to its
\* sleep.
C3_LoopSurvives ==
    /\ loop.pc = "stopped" => stop_event
    /\ lfault # "none" => loop.pc = "sleep" /\ last_error = lfault

C3_Witness ==
    /\ lfault = "RequestError"
    /\ loop.pc = "sleep"
    /\ ~stop_event
    /\ state.last_action # "none"

\* C2: a device call of a manual command is never in progress while a device
\* call of the loop, or of another manual command, is in progress.
C2_DeviceCallsExclusive ==
    /\ ~(LoopInCall /\ \E c \in Callers : ManInCall(c))
    /\ \A c1, c2 \in Callers : (ManInCall(c1) /\ ManInCall(c2)) => c1 = c2

\* The rules of decide_action on the status and configuration of the loop's
\* current cycle.
CycleCoolFires ==
    /\ loop.cfg.enable_cool
    /\ \/ /\ loop.status.temperature >= loop.cfg.cool_on_above
          /\ loop.status.cool_setpoint # loop.cfg.cool_off_at
       \/ /\ loop.status.temperature <= loop.cfg.cool_off_at
          /\ loop.status.cool_setpoint # loop.cfg.cool_on_above
CycleHeatFires ==
    /\ loop.cfg.enable_heat
    /\ \/ /\ loop.status.temperature <= loop.cfg.heat_on_below
          /\ loop.status.heat_setpoint # loop.cfg.heat_off_at
       \/ /\ loop.status.temperature >= loop.cfg.heat_off_at
          /\ loop.status.heat_setpoint # loop.cfg.heat_on_below

HysteresisCycle == loop.cfg.control_mode = "hysteresis"
LeavesHeat == state.mode = "heat" /\ state'.mode # "heat"
LeavesCool == state.mode = "cool" /\ state'.mode # "cool"

\* C7 as stated: in the hysteresis loop without manual commands, mode leaves
\* Heat only in a cycle that observes t >= heat_off_at or heating disabled,
\* and leaves Cool only in a cycle that observes t <= cool_off_at or cooling
\* disabled.
C7_Original ==
    [][ /\ (LeavesHeat /\ HysteresisCycle) =>
             \/ loop.status.temperature >= loop.cfg.heat_off_at
             \/ ~loop.cfg.enable_heat
        /\ (LeavesCool /\ HysteresisCycle) =>
             \/ loop.status.temperature <= loop.cfg.cool_off_at
             \/ ~loop.cfg.enable_cool ]_vars

\* C7, amended: in the hysteresis loop without manual commands, mode leaves
\* Heat only in a cycle that observes t >= heat_off_at, or heating disabled,
\* or a cooling rule firing on the reported cool setpoint, or cooling disabled
\* with the device reporting cool_off_at and not heat_off_at; mode leaves Cool
\* only in a cycle that observes t <= cool_off_at, or cooling disabled, or a
\* heating rule firing on the reported heat setpoint, or heating disabled with
\* the device reporting heat_off_at and not cool_off_at.
C7_StickyHold ==
    [][ /\ (LeavesHeat /\ HysteresisCycle) =>
             \/ loop.status.temperature >= loop.cfg.heat_off_at
             \/ ~loop.cfg.enable_heat
             \/ CycleCoolFires
             \/ /\ ~loop.cfg.enable_cool
                /\ loop.status.cool_setpoint = loop.cfg.cool_off_at
                /\ loop.status.heat_setpoint # loop.cfg.heat_off_at
        /\ (LeavesCool /\ HysteresisCycle) =>
             \/ loop.status.temperature <= loop.cfg.cool_off_at
             \/ ~loop.cfg.enable_cool
             \/ CycleHeatFires
             \/ /\ ~loop.cfg.enable_heat
                /\ loop.status.heat_setpoint = loop.cfg.heat_off_at
                /\ loop.status.cool_setpoint # loop.cfg.cool_off_at ]_vars

\* A later cycle ended in the deadband with the Heat hold still remembered.
C7_Witness ==
    /\ state.mode = "heat"
    /\ loop.pc = "sleep"
    /\ last_error = "none"
    /\ last_status.temperature = 70
    /\ last_status.heat_setpoint = DefaultHeatOffAt
    /\ config = BaseConfig

\* ------------------------- decide_action with the whole controller state

\* Configurations validate_config accepts, in either control mode.
StateConfigs ==
    { c \in [ident : {1}, control_mode : {"hysteresis", "schedule"},
             hysteresis_enabled : BOOLEAN,
             enable_heat : BOOLEAN, enable_cool : BOOLEAN,
             heat_on_below : Temps, heat_off_at : Temps,
             cool_on_above : Temps, cool_off_at : Temps,
             login_refresh_seconds : {RefreshTicks}] :
        validate_config(c) = <<>> }

StateInputs ==
    [temperature : OptTemps, config : StateConfigs, mode : Modes,
     last_action : {"none", "heat"},
     heat_setpoint : OptTemps, cool_setpoint : OptTemps]

InitDecideState ==
    /\ ServiceInit
    /\ cfgFile = BaseConfig
    /\ din \in StateInputs
    /\ dout = NoDecision

\* Mutant: the decision is recorded in the state it was given.
DecideStateCall_remembers ==
    /\ dout = NoDecision
    /\ dout' = decide_action(din.temperature, din.config,
                             [mode |-> din.mode, last_action |-> din.last_action],
                             din.heat_setpoint, din.cool_setpoint)
    /\ din' = IF dout'.kind = "none" THEN din
              ELSE [din EXCEPT !.mode = apply_action(
                        [mode |-> din.mode, last_action |-> din.last_action],
                        dout').mode]
    /\ UNCHANGED <<envVars, sharedVars, loopVars, man, snap, loop2, accepted, session>>

\* Lines 19-77 assign to no attribute of state or config: the arguments are
\* after the call what they were before it.
DecideStateCall ==
    /\ dout = NoDecision
    /\ dout' = decide_action(din.temperature, din.config,
                             [mode |-> din.mode, last_action |-> din.last_action],
                             din.heat_setpoint, din.cool_setpoint)
    /\ UNCHANGED <<din, envVars, sharedVars, loopVars, man, snap, loop2, accepted, session>>

NextDecideState == DecideStateCall

\* A further call with the arguments of the first.
DecideStateAgain ==
    /\ dout # NoDecision
    /\ dout' = decide_action(din.temperature, din.config,
                             [mode |-> din.mode, last_action |-> din.last_action],
                             din.heat_setpoint, din.cool_setpoint)
    /\ UNCHANGED <<din, envVars, sharedVars, loopVars, man, snap, loop2, accepted, session>>

NextPure == DecideStateCall \/ DecideStateAgain

SpecPure == InitDecideState /\ [][NextPure]_vars

SpecDecideState == InitDecideState /\ [][NextDecideState]_vars

\* C11: decide_action returns none whenever the temperature is absent or
\* hysteresis_enabled is false, whatever the state, thresholds and reported
\* setpoints.
C11_NoneWhenOff ==
    (Decided /\ (~Present \/ ~Enabled)) => dout = NoAction

\* Hysteresis is disabled on arguments where the heat-start rule would fire.
C11_Witness ==
    /\ Decided /\ Present /\ ~Enabled
    /\ HeatStartFires
    /\ dout = NoAction

\* The deadband of C12: no mode remembered, temperature strictly between
\* heat_on_below and cool_on_above.
C12_Case ==
    /\ Decided /\ Present
    /\ din.mode = "none"
    /\ din.temperature > din.config.heat_on_below
    /\ din.temperature < din.config.cool_on_above

CancelFiresUnremembered ==
    \/ /\ ~din.config.enable_heat
       /\ din.heat_setpoint = din.config.heat_off_at
       /\ din.cool_setpoint # din.config.cool_off_at
    \/ /\ ~din.config.enable_cool
       /\ din.cool_setpoint = din.config.cool_off_at
       /\ din.heat_setpoint # din.config.heat_off_at

C13_Case ==
    /\ Decided /\ Present
    /\ din.mode = "none"
    /\ din.heat_setpoint = din.config.heat_on_below
    /\ din.cool_setpoint = din.config.cool_on_above
    /\ din.temperature > din.config.heat_on_below
    /\ din.temperature < din.config.cool_on_above

C13_IdleNotReissued == C13_Case => dout = NoAction

C13_Witness ==
    /\ C13_Case /\ Enabled
    /\ din.config.enable_heat /\ din.config.enable_cool
    /\ din.temperature >= din.config.heat_off_at
    /\ din.temperature <= din.config.cool_off_at
    /\ dout = NoAction

\* C14: decide_action returns none for every configuration whose control_mode
\* is schedule.
C14_Original ==
    (Decided /\ din.config.control_mode = "schedule") => dout = NoAction

\* The arguments of C15 and C16: hysteresis mode, temperature strictly between
\* heat_on_below and heat_off_at, no mode remembered, reported cool setpoint
\* cool_on_above, reported heat setpoint neither heat threshold.
OverrideCase ==
    /\ Decided /\ Present /\ Enabled
    /\ din.config.enable_heat /\ din.config.enable_cool
    /\ din.config.control_mode = "hysteresis"
    /\ din.temperature > din.config.heat_on_below
    /\ din.temperature < din.config.heat_off_at
    /\ din.mode = "none"
    /\ din.cool_setpoint = din.config.cool_on_above
    /\ din.heat_setpoint # Absent
    /\ din.heat_setpoint \notin {din.config.heat_on_below, din.config.heat_off_at}

\* C15: on the arguments above with last_action = heat, decide_action returns
\* Heat with setpoint heat_off_at.
C15_Original ==
    (OverrideCase /\ din.last_action = "heat") => dout = HeatResult

\* C16: on the arguments above with no last action, decide_action returns
\* HeatIdle with setpoint heat_on_below.
C16_Original ==
    (OverrideCase /\ din.last_action = "none") => dout = HeatIdleResult

\* ------------------------------------------- the loop in schedule mode

ScheduleCycle == loop.cfg.control_mode = "schedule"

LoopInApply ==
    loop.pc \in {"apply", "apply_login", "apply_cmd", "apply_relogin",
                 "apply_recmd"}

\* A get_status() of the cycle returns a status.
FetchReturns ==
    /\ loop.pc \in {"fetch_get", "fetch_reget"}
    /\ loop'.pc \in {"apply", "sleep"}
    /\ lexec'.result = "ok"

\* The status it returned.
Fetched == IF loop'.pc = "apply" THEN loop'.status ELSE last_status'

\* The cycle's command in schedule mode is a cancel for a status with a hold.
C17_OnlyCancel ==
    (LoopInApply /\ ScheduleCycle) =>
        /\ loop.action = HysteresisAction("cancel", Absent)
        /\ \/ loop.status.hold_until \notin {"None", "", "--"}
           \/ loop.status.status_heat \notin {Absent, 0}
           \/ loop.status.status_cool \notin {Absent, 0}

\* C17: in a cycle with control_mode = schedule the only command is Cancel,
\* issued exactly when the fetched status shows a hold (hold_until present and
\* neither empty nor "--", or status_heat non-zero, or status_cool non-zero);
\* otherwise the cycle issues no command and the controller state is as
\* before, whatever decide_action would answer.
C17_ScheduleCancel ==
    /\ []C17_OnlyCancel
    /\ [][ (FetchReturns /\ ScheduleCycle) =>
             /\ loop'.pc = "apply" <=>
                  \/ Fetched.hold_until \notin {"None", "", "--"}
                  \/ Fetched.status_heat \notin {Absent, 0}
                  \/ Fetched.status_cool \notin {Absent, 0}
             /\ loop'.pc = "sleep" => state' = state ]_vars

\* The cancel of a schedule cycle is in flight, for a hold the device shows by
\* its cool flag alone.
C17_Witness ==
    /\ loop.pc = "apply_cmd"
    /\ ScheduleCycle
    /\ loop.action.kind = "cancel"
    /\ loop.status.hold_until = "None"
    /\ loop.status.status_cool = 1

\* --------------------------------------------------------- apply_action

ActionKinds == {"heat", "cool", "heat-idle", "cool-idle", "cancel"}

\* A state, and an action or none.
ApplyInputs ==
    [mode : Modes, last_action : ActionKinds \cup {"none"},
     action : [kind : ActionKinds \cup {"none"}, setpoint : OptTemps]]

InitApply ==
    /\ ServiceInit
    /\ cfgFile = BaseConfig
    /\ din \in ApplyInputs
    /\ dout = NoDecision

ApplyCall ==
    /\ dout = NoDecision
    /\ dout' = apply_action([mode |-> din.mode, last_action |-> din.last_action],
                            din.action)
    /\ UNCHANGED <<din, envVars, sharedVars, loopVars, man, snap, loop2, accepted, session>>

NextApply == ApplyCall

SpecApply == InitApply /\ [][NextApply]_vars

\* C18: apply_action with Heat sets mode Heat, with Cool mode Cool, with
\* HeatIdle, CoolIdle or Cancel mode None, and in each case last_action becomes
\* the action's kind; with no action mode and last_action are as before.
C18_Apply ==
    Decided =>
        IF din.action.kind = "none"
        THEN dout.mode = din.mode /\ dout.last_action = din.last_action
        ELSE /\ dout.last_action = din.action.kind
             /\ dout.mode = CASE din.action.kind = "heat" -> "heat"
                              [] din.action.kind = "cool" -> "cool"
                              [] OTHER -> "none"

\* A CoolIdle action applied to a state that remembered Heat.
C18_Witness ==
    /\ Decided
    /\ din.mode = "heat" /\ din.last_action = "heat"
    /\ din.action.kind = "cool-idle"
    /\ dout = [mode |-> "none", last_action |-> "cool-idle"]

\* ------------------------------------------------- _login_if_needed

\* _login_if_needed is entered by the loop, and its login() returns.
EnsureFreshDecides == loop.pc \in {"fetch", "apply"} /\ loop'.pc # loop.pc
LoginBegins == loop'.pc \in {"fetch_login", "apply_login"}
LoginReturns == loop.pc \in {"fetch_login", "apply_login"} /\ loop'.pc # loop.pc
LoginSucceeded == loop'.pc \in {"fetch_get", "apply_cmd"}

\* C19: _login_if_needed invokes login exactly when no login is recorded for
\* the client (none since it was built) or now - last_login_at >=
\* login_refresh_seconds; a successful login records the time read on entry;
\* a fresh session makes no login and leaves last_login_at, and so does a
\* failed login.
C19_EnsureFresh ==
    [][ /\ EnsureFreshDecides =>
             /\ LoginBegins <=>
                  \/ last_login_at = Absent
                  \/ now - last_login_at >= loop.cfg.login_refresh_seconds
             /\ LoginBegins => loop'.now = now
             /\ last_login_at' = last_login_at
        /\ LoginReturns =>
             IF LoginSucceeded
             THEN last_login_at' = loop.now /\ last_login_at' # Absent
             ELSE last_login_at' = last_login_at
        /\ client_key' # client_key => last_login_at' = Absent ]_vars

\* The command of a cycle is in flight after a refresh login of its own: the
\* session, fresh at the fetch, had aged by the refresh interval.
C19_Witness ==
    /\ loop.pc = "apply_cmd"
    /\ lexec.logins = 1 /\ lexec.forced = 0
    /\ last_login_at >= RefreshTicks
    /\ now > last_login_at

\* ------------------------------- a failed login of _login_if_needed

\* The login of _login_if_needed failed in the current operation of the loop.
FreshLoginFailed == lexec.login_error # "none"

\* C20 as stated: when the login of _login_if_needed fails at the start of a
\* fetch or of an apply, the failure ends the operation: no second login and
\* no device operation.
C20_Original ==
    FreshLoginFailed =>
        /\ lexec.logins = 1 /\ lexec.forced = 0 /\ lexec.tries = 0
        /\ lexec.result = "raised"
        /\ loop.pc = "sleep" /\ last_error = lexec.login_error

\* The one failure no handler catches: LoginError in _fetch_status.
Uncaught == lexec.op = "fetch" /\ lexec.login_error = "LoginError"

\* C20, amended: a LoginError of that login in the fetch path ends the
\* operation and the cycle with no second login and no device operation. A
\* RequestError of that login in the fetch path, and either failure in the
\* apply path, is caught: login is invoked once more, and the device operation
\* is then invoked once if that login succeeds and not at all if it fails, the
\* second login's failure ending the cycle.
C20_FreshLoginFailure ==
    /\ (FreshLoginFailed /\ Uncaught) =>
          /\ lexec.logins = 1 /\ lexec.forced = 0 /\ lexec.tries = 0
          /\ lexec.result = "raised"
          /\ loop.pc = "sleep" /\ last_error = "LoginError"
    /\ (FreshLoginFailed /\ ~Uncaught) =>
          /\ lexec.logins = 2 /\ lexec.forced = 1
          /\ lexec.tries = IF lexec.forced_ok THEN 1 ELSE 0
          /\ (lexec.result # "running" /\ ~lexec.forced_ok) =>
                /\ lexec.result = "raised"
                /\ loop.pc = "sleep"
                /\ last_error \in {"RequestError", "LoginError"}

\* In the apply path the credentials were rejected, the second login
\* succeeded and the command was accepted.
C20_Witness ==
    /\ lexec.op = "apply"
    /\ lexec.login_error = "LoginError"
    /\ lexec.forced_ok
    /\ lexec.tries = 1
    /\ lexec.result = "ok"

\* ------------------------------------- the head of a cycle: the claims

\* The loop thread reads the file at the head of a cycle.
CycleLoads ==
    /\ loop.pc = "check"
    /\ loop'.pc \notin {"check", "stopped"}
    /\ cfgFile # Corrupt

NoDeviceInteraction ==
    /\ loop'.pc = "sleep"
    /\ UNCHANGED <<client_key, last_login_at, state, last_status,
                   last_action_at>>

\* C21: a cycle whose loaded configuration fails validation (heat_on_below >=
\* heat_off_at, or cool_on_above <= cool_off_at) records the violations as the
\* last error and goes to its sleep: the client, the login time, the
\* controller state and the last status are as before.
C21_InvalidConfig ==
    [][ ( /\ CycleLoads
          /\ \/ cfgFile.heat_on_below >= cfgFile.heat_off_at
             \/ cfgFile.cool_on_above <= cfgFile.cool_off_at )
        => /\ NoDeviceInteraction
           /\ last_error' # "none"
           /\ last_error' = lfault'
           /\ cfgFile.heat_on_below >= cfgFile.heat_off_at =>
                last_error' = "heat_on_below must be less than heat_off_at" ]_vars

\* An invalid file was read in a cycle after one that published a status.
C21_Witness ==
    /\ config = InvalidConfig
    /\ loop.pc = "sleep"
    /\ last_error = "heat_on_below must be less than heat_off_at"
    /\ last_status # NoStatus
    /\ client_key # Absent

\* A caller of apply_manual_command reads the file.
ManualLoads(c) ==
    /\ man[c].pc \in {"idle", "done"}
    /\ man'[c] # man[c]
    /\ cfgFile # Corrupt

\* No username, password or device id in the file.
Unidentified == cfgFile.ident = 0

\* C22: with a configuration that lacks username, password or device id, a
\* cycle of the loop records the error and sleeps, a manual command fails to
\* its caller, and neither touches the client, the login time, the controller
\* state or the last status: no login, fetch or command begins.
C22_Unidentified ==
    [][ /\ (CycleLoads /\ Unidentified) =>
             /\ NoDeviceInteraction
             /\ last_error' = "config missing username/password/device_id"
        /\ \A c \in Callers :
             (ManualLoads(c) /\ Unidentified) =>
                 /\ man'[c].pc = "done"
                 /\ man'[c].res = "ValueError"
                 /\ UNCHANGED <<client_key, last_login_at, state, last_status,
                                last_error, last_action_at>> ]_vars

\* A manual heat command has failed on an unidentified file while the loop
\* sleeps on the same error, after an action had been applied.
C22_Witness ==
    /\ config = UnidentifiedConfig
    /\ cfgFile = UnidentifiedConfig
    /\ man["m1"].pc = "done" /\ man["m1"].cmd = "heat"
    /\ man["m1"].res = "ValueError"
    /\ loop.pc = "sleep"
    /\ last_error = "config missing username/password/device_id"
    /\ state.last_action # "none"

\* A cycle, or a manual command, goes on to _ensure_client with the file read.
CycleProceeds == CycleLoads /\ loop'.pc = "fetch"
ManualProceeds(c) == ManualLoads(c) /\ ~Unidentified

\* _ensure_client's effect for the identity of the file read.
EnsureClientEffect ==
    IF cfgFile.ident # client_key
    THEN client_key' = cfgFile.ident /\ last_login_at' = Absent
    ELSE client_key' = client_key /\ last_login_at' = last_login_at

\* A device operation of the loop or of a manual command begins.
OperationBegins ==
    \/ /\ loop'.pc # loop.pc
       /\ loop'.pc \in {"fetch_get", "fetch_reget", "apply_cmd", "apply_recmd"}
    \/ \E c \in Callers : man'[c].pc = "cmd" /\ man[c].pc # "cmd"

\* _ensure_client rebuilds and unsets last_login_at exactly on a different
\* identity; an operation begins only with a login time recorded.
RebuildStep ==
    /\ CycleProceeds => EnsureClientEffect
    /\ \A c \in Callers :
         ManualProceeds(c) =>
             /\ EnsureClientEffect
             /\ cfgFile.ident # client_key => man'[c].pc = "login"
    /\ client_key' # client_key =>
         \/ CycleProceeds
         \/ \E c \in Callers : ManualProceeds(c)
    /\ OperationBegins => last_login_at' # Absent

\* C23 without its last clause: a cycle or a manual command that proceeds
\* with a configuration whose identity differs from the one the client was
\* built with builds a client and unsets last_login_at, and a manual command
\* then begins with a login; with the same identity the client and
\* last_login_at are as before; the client changes in no other step.
C23_ClientRebuild == [][RebuildStep]_vars

\* C23: as above, and a device operation begins only after a login has
\* succeeded on the client now installed.
C23_Original ==
    [][RebuildStep /\ (OperationBegins => session'.logged)]_vars

\* A manual command has built a client for another identity, after a command
\* was accepted on the previous client, and its login is in flight.
C23_Witness ==
    /\ client_key = OtherIdentityConfig.ident
    /\ last_login_at = Absent
    /\ man["m1"].pc = "login"
    /\ state.last_action # "none"

\* ------------------------------------------ publication: the claims

\* The cycle of the loop ends: it reaches the sleep.
CycleEnds == loop.pc # "sleep" /\ loop'.pc = "sleep"

\* C24: a cycle that fetched a status and applied its action, if any, without
\* failure ends with that status as the last status and no last error; a
\* cycle in which anything failed ends with the failure's message as the last
\* error and the last status as it was; neither is written at any other step
\* of the loop.
C24_Publication ==
    [][ /\ (CycleEnds /\ lfault' = "none") =>
             /\ last_error' = "none"
             /\ last_status' # NoStatus
             /\ LoopInApply => last_status' = loop.status
             /\ ~LoopInApply => loop.pc \in {"fetch_get", "fetch_reget"}
        /\ (CycleEnds /\ lfault' # "none") =>
             /\ last_error' = lfault'
             /\ last_status' = last_status
        /\ ~CycleEnds =>
             /\ last_status' = last_status
             /\ last_error' = last_error ]_vars

\* A cycle fetched a status and its command failed twice: the status of an
\* earlier cycle is still the last status.
C24_Witness ==
    /\ loop.pc = "sleep"
    /\ lexec.op = "apply" /\ lexec.result = "raised"
    /\ last_error = "RequestError"
    /\ last_status # NoStatus
    /\ last_status.temperature = 72

\* ------------------------------------- the order of a cycle: the claims

\* The action of the cycle is the decision on the status the cycle fetched.
C25_DecidedOnFetched ==
    LoopInApply =>
        /\ loop.status # NoStatus
        /\ loop.action.kind # "none"
        /\ loop.action =
             IF ScheduleCycle
             THEN HysteresisAction("cancel", Absent)
             ELSE decide_action(loop.status.temperature, loop.cfg, state,
                                loop.status.heat_setpoint,
                                loop.status.cool_setpoint)

\* C25: in every cycle the status is fetched first, the decision is taken on
\* that status, at most one action is applied, the controller state is
\* updated when its command is accepted, and the publication ends the cycle:
\* no action is applied before the cycle's fetch succeeded, and none after
\* the cycle's first.
C25_CycleOrder ==
    /\ []C25_DecidedOnFetched
    /\ [][ /\ loop.pc = "check" => loop'.pc \in {"check", "fetch", "sleep", "stopped"}
           /\ (loop'.pc = "apply" /\ loop.pc # "apply") =>
                 /\ loop.pc \in {"fetch_get", "fetch_reget"}
                 /\ lexec'.result = "ok"
           /\ (state' # state \/ last_action_at' # last_action_at) =>
                 /\ loop.pc \in {"apply_cmd", "apply_recmd"}
                 /\ state' = apply_action(state, loop.action)
                 /\ last_status' = loop.status
                 /\ loop'.pc = "sleep"
           /\ last_status' # last_status => loop'.pc = "sleep" ]_vars

\* The heat command of a cycle is in flight, decided on the cold status the
\* cycle fetched, after an earlier cycle applied an action.
C25_Witness ==
    /\ loop.pc = "apply_cmd"
    /\ loop.action.kind = "heat"
    /\ loop.status.temperature = 67
    /\ last_status # NoStatus
    /\ state.last_action # "none"

\* ------------------------------------------------------------ the stop

\* The steps of the loop thread itself.
LoopSteps(Statuses) ==
    \/ LoopExit
    \/ LoopBegin
    \/ LoopFetchEnter
    \/ LoopFetchLoginReturn
    \/ LoopFetchGetReturn(Statuses)
    \/ LoopFetchReloginReturn
    \/ LoopFetchRegetReturn(Statuses)
    \/ LoopApplyEnter
    \/ LoopApplyLoginReturn
    \/ LoopApplyCmdReturn
    \/ LoopApplyReloginReturn
    \/ LoopApplyRecmdReturn
    \/ LoopWake

\* The stop model: the loop thread on one file, the clock, and stop(); every
\* device call returns and the thread is scheduled.
InitStop == ServiceInit /\ cfgFile \in {BaseConfig, ScheduleConfig} /\ HarnessIdle

NextStop ==
    \/ LoopNext(SharedStatuses)
    \/ Tick

SpecStop ==
    InitStop /\ [][NextStop]_vars /\ WF_vars(LoopSteps(SharedStatuses))

\* C26: once the stop event is set no cycle begins (the event is tested
\* before each cycle, and the sleep leads to that test), and, every device
\* call returning, the thread of a started loop ends; so only the cycle in
\* progress when the event is set can still complete.
C26_CooperativeStop ==
    /\ [][ /\ (stop_event /\ loop.pc = "check") => loop'.pc \in {"check", "stopped"}
           /\ (loop.pc = "sleep" /\ loop'.pc # "sleep") => loop'.pc = "check"
           /\ loop.pc = "stopped" => loop'.pc = "stopped"
           /\ stop_event => stop_event' ]_vars
    /\ (stop_event /\ loop.pc # "init") ~> (loop.pc = "stopped")

\* The thread has ended on the stop event after a cycle that published.
C26_Witness ==
    /\ stop_event
    /\ loop.pc = "stopped"
    /\ last_status # NoStatus

\* -------------------------------------------------------- the snapshot

\* The snapshot model: the loop thread, a manual command and a reader of
\* get_snapshot on one file, with _update_state taken store by store. The
\* clock stands still, so a login once made stays fresh and _apply_action
\* never logs in before its command.
SnapStatuses ==
    { ThermostatStatus(67, DefaultHeatOnBelow, DefaultCoolOnAbove, "None", 0, 0),
      ThermostatStatus(72, DefaultHeatOnBelow, DefaultCoolOnAbove, "None", 0, 0) }

InitSnap == ServiceInit /\ cfgFile = BaseConfig /\ HarnessIdle

NextSnap ==
    \/ Start
    \/ LoopBegin
    \/ LoopFetchEnter
    \/ LoopFetchLoginReturn
    \/ LoopFetchGetReturn(SnapStatuses)
    \/ LoopFetchReloginReturn
    \/ LoopFetchRegetReturn(SnapStatuses)
    \/ LoopApplyEnter
    \/ LoopCmdReturn
    \/ LoopApplyReloginReturn
    \/ LoopRecmdReturn
    \/ LoopStoreMode
    \/ LoopStoreLastAction
    \/ LoopStoreAt
    \/ LoopPublish
    \/ LoopWake
    \/ \E c \in Callers : ManualBegin(c)
    \/ \E c \in Callers : ManualLoginReturn(c)
    \/ \E c \in Callers : ManualCallReturn(c)
    \/ \E c \in Callers : ManualStoreMode(c)
    \/ \E c \in Callers : ManualStoreLastAction(c)
    \/ \E c \in Callers : ManualStoreAt(c)
    \/ \E c \in Callers : CommandRejected(c)
    \/ SnapshotBegin
    \/ SnapshotReadMode
    \/ SnapshotReturn

SpecSnap == InitSnap /\ [][NextSnap]_vars

\* The mode the transition assigns to an action of this kind.
ModeOf(kind) ==
    IF kind = "heat" THEN "heat" ELSE IF kind = "cool" THEN "cool" ELSE "none"

\* A controller part is that of one applied action (or of none yet).
OneAction(c) ==
    IF c.last_action = "none"
    THEN c.mode = "none" /\ c.last_action_at = Absent
    ELSE c.mode = ModeOf(c.last_action) /\ c.last_action_at # Absent

\* C27: the controller part get_snapshot returns is that of one applied
\* action: never the mode of one action with the last_action or
\* last_action_at of another.
C27_SnapshotOneAction ==
    [][(snap.pc = "last_action" /\ snap'.pc = "idle") => OneAction(Returned)]_vars

\* C28: a snapshot read during which no action was being applied and
\* nothing it read has changed returns the mode that the transition assigns
\* to the last_action it returns; and no step of get_snapshot changes the
\* state.
C28_RoundTrip ==
    [][ /\ ( /\ snap.pc = "last_action" /\ snap'.pc = "idle"
             /\ snap.whole /\ ~Updating
             /\ Returned.mode = state.mode
             /\ Returned.last_action_at = last_action_at
             /\ Returned.last_action # "none" ) =>
               Returned.mode = ModeOf(Returned.last_action)
        /\ snap' # snap => UNCHANGED <<state, last_action_at>> ]_vars

\* C29: the step on which a manual heat, cool or cancel command returns
\* successfully leaves the state with the mode and last_action of that
\* command.
C29_ManualState ==
    [][\A c \in Callers :
         (man[c].pc # "done" /\ man'[c].pc = "done" /\ man'[c].res = "ok"
          /\ man'[c].cmd \in {"heat", "cool", "cancel"}) =>
            state' = [mode |-> ModeOf(man'[c].cmd), last_action |-> man'[c].cmd]]_vars

\* C30: no step of a manual fan command, whether it ends in success or in
\* failure, changes the state or last_action_at.
C30_FanFrame ==
    [][\A c \in Callers :
         (man'[c] # man[c] /\ man'[c].cmd = "fan") =>
            UNCHANGED <<state, last_action_at>>]_vars

\* A fan command has succeeded after an action was applied.
C30_Witness ==
    \E c \in Callers :
        /\ man[c].pc = "done"
        /\ man[c].cmd = "fan"
        /\ man[c].res = "ok"
        /\ state.last_action # "none"
        /\ last_action_at # Absent

\* ------------------------------------ manual commands: failure, validation

\* C31: a manual command's device call that fails is followed by a forced
\* login and a second call, so the failure of a first call is not what the
\* caller gets. (apply_manual_command has one call per command, at position
\* cmd; whatever ends there is the result of a first call.)
C31_Original ==
    [][\A c \in Callers :
         (man[c].pc = "cmd" /\ man'[c].pc = "done") => man'[c].res = "ok"]_vars

\* C32 as stated: no step of a manual command with an unknown name is a
\* login or changes the state or last_login_at.
C32_Original ==
    [][\A c \in Callers :
         (man'[c] # man[c] /\ man'[c].cmd = "unknown") =>
            /\ man'[c].pc # "login"
            /\ UNCHANGED <<state, last_action_at, last_login_at>>]_vars

\* C32: a request that the handler of /api/command finds invalid is answered
\* in one step that calls nothing and changes nothing of the service; an
\* unknown command given to apply_manual_command itself is refused only at
\* the dispatch, after _ensure_client and _login_if_needed.
C32_HandlerRejects ==
    [][\A c \in Callers :
         /\ (man'[c] # man[c] /\ man'[c].res = "HTTP 400") =>
               /\ man[c].pc \in {"idle", "done"}
               /\ UNCHANGED <<sharedVars, session, loopVars>>
         /\ (man'[c] # man[c] /\ man'[c].res = "ValueError") =>
               \/ man[c].pc = "login"
               \/ /\ man[c].pc \in {"idle", "done"}
                  /\ \/ ~is_configured(cfgFile)
                     \/ ~LoginNeeded(last_login_at', now, cfgFile) ]_vars

\* The handler has rejected a request after an action was applied and while
\* a login time is recorded.
C32_Witness ==
    \E c \in Callers :
        /\ man[c].pc = "done"
        /\ man[c].res = "HTTP 400"
        /\ man[c].cmd = "unknown"
        /\ state.last_action # "none"
        /\ last_login_at # Absent


\* ------------------------------------------------- decide_action is pure

StorePcs == {"store_mode", "store_last_action", "store_at"}

\* C37: the controller state changes only after the device accepted the
\* command: mode, last_action and last_action_at are stored only by a thread
\* in _update_state, which the loop enters only from a command that returned
\* without failure and a manual command only from its device call; a step in
\* which the loop's apply or a manual device call fails leaves the three as
\* they were and does not lead to _update_state.
C37_AcceptedFirst ==
    [][/\ (state' # state \/ last_action_at' # last_action_at) =>
             \/ loop.pc \in StorePcs /\ lexec.result = "ok" /\ loop' # loop
             \/ \E c \in Callers : man[c].pc \in StorePcs /\ man'[c] # man[c]
       /\ (loop'.pc \in StorePcs /\ loop.pc \notin StorePcs) =>
             /\ loop.pc \in {"apply_cmd", "apply_recmd"}
             /\ lexec'.result = "ok"
       /\ (lexec.op = "apply" /\ lexec.result = "running"
              /\ lexec'.result = "raised") =>
             /\ loop'.pc \notin StorePcs
             /\ UNCHANGED <<state, last_action_at>>
       /\ \A c \in Callers :
             /\ (man[c].pc = "cmd" /\ man'[c].pc = "done"
                    /\ man'[c].res # "ok") =>
                   UNCHANGED <<state, last_action_at>>
             /\ (man'[c].pc \in StorePcs /\ man[c].pc \notin StorePcs) =>
                   man[c].pc = "cmd"]_vars

\* The loop's command and its retry have both failed, after a manual Cool
\* was accepted and recorded: the state is still that of the manual command.
C37_Witness ==
    /\ lexec.op = "apply" /\ lexec.result = "raised" /\ lexec.retry_failed
    /\ state = [mode |-> "cool", last_action |-> "cool"]
    /\ last_action_at # Absent

\* ---------------------------------------- the loop closed over the device

\* Temperatures and thresholds are floats (config.py:18-21, models.py:20),
\* the setpoints a device reports are whole degrees (models.py:22-23). Here
\* they are counted in half degrees, 0..MaxHalf.
MaxHalf == 4
\* The commands counted before the harness stops counting.
MaxCommands == 3

Halves == 0..MaxHalf
Wholes == { h \in Halves : h % 2 = 0 }

\* int(action.setpoint), service.py:260 and 263: the fraction is dropped.
IntOf(h) == (h \div 2) * 2

\* Configurations validate_config accepts, in hysteresis mode with heating
\* and cooling enabled.
ClosedConfigs ==
    { c \in [ident : {1}, control_mode : {"hysteresis"},
             hysteresis_enabled : {TRUE},
             enable_heat : {TRUE}, enable_cool : {TRUE},
             heat_on_below : Halves, heat_off_at : Halves,
             cool_on_above : Halves, cool_off_at : Halves,
             login_refresh_seconds : {RefreshTicks}] :
        validate_config(c) = <<>> }

\* The constant temperature and configuration, the controller state, the
\* setpoints the device reports, and the commands issued so far.
ClosedInputs ==
    [temperature : Halves, config : ClosedConfigs, mode : Modes,
     last_action : {"none", "heat", "cool-idle"},
     heat_setpoint : Wholes \cup {Absent}, cool_setpoint : Wholes \cup {Absent},
     commands : {0}]

InitClosed ==
    /\ ServiceInit
    /\ cfgFile = BaseConfig
    /\ din \in ClosedInputs
    /\ dout = NoDecision

\* One cycle of _run, lines 159-190, with no failure: the status carries
\* the setpoints last commanded, decide_action decides, _apply_action sends
\* int(setpoint) to the device, which accepts it, and _update_state applies
\* the action.
ClosedCycle ==
    LET action == decide_action(din.temperature, din.config,
                                [mode |-> din.mode, last_action |-> din.last_action],
                                din.heat_setpoint, din.cool_setpoint)
        st == apply_action([mode |-> din.mode, last_action |-> din.last_action],
                           action)
    IN  /\ action.kind # "none" => din.commands < MaxCommands
        /\ dout' = action
        /\ din' = IF action.kind = "none" THEN din
                  ELSE [din EXCEPT
                          !.mode = st.mode,
                          !.last_action = st.last_action,
                          !.heat_setpoint =
                              IF action.kind \in {"heat", "heat-idle"}
                              THEN IntOf(action.setpoint) ELSE @,
                          !.cool_setpoint =
                              IF action.kind \in {"cool", "cool-idle"}
                              THEN IntOf(action.setpoint) ELSE @,
                          !.commands = @ + 1]
        /\ UNCHANGED <<envVars, sharedVars, loopVars, man, snap, loop2, accepted, session>>

NextClosed == ClosedCycle

SpecClosed == InitClosed /\ [][NextClosed]_vars

\* C38: with a constant temperature and a constant valid configuration,
\* heating and cooling enabled, no failures and a device that reports the
\* setpoints last commanded, the loop issues at most two commands, from any
\* initial state and reported setpoints.
C38_Original ==
    din.commands <= 2

\* ------------------------------- cycles and commands, one at a time

\* Statuses on which decide_action returns Heat, HeatIdle, Cool, CoolIdle
\* under the default thresholds.
SerialStatuses ==
    { ThermostatStatus(67, DefaultHeatOnBelow, DefaultCoolOnAbove, "None", 0, 0),
      ThermostatStatus(72, DefaultHeatOffAt, DefaultCoolOnAbove, "None", 0, 0),
      ThermostatStatus(77, DefaultHeatOnBelow, DefaultCoolOnAbove, "None", 0, 0),
      ThermostatStatus(72, DefaultHeatOnBelow, DefaultCoolOffAt, "None", 0, 0) }

\* The loop thread is between cycles; no manual command is running.
LoopQuiet == loop.pc \in {"init", "check", "sleep", "stopped"}
ManQuiet == \A c \in Callers : man[c].pc \in {"idle", "done"}

InitSerial == ServiceInit /\ cfgFile = BaseConfig /\ HarnessIdle

\* A cycle begins and runs only while no manual command is running, and a
\* manual command only between cycles; _update_state is taken store by
\* store.
NextSerial ==
    \/ Start
    \/ ManQuiet /\ LoopBegin
    \/ LoopFetchEnter
    \/ LoopFetchLoginReturn
    \/ LoopFetchGetReturn(SerialStatuses)
    \/ LoopFetchReloginReturn
    \/ LoopFetchRegetReturn(SerialStatuses)
    \/ LoopApplyEnter
    \/ LoopCmdReturn
    \/ LoopApplyReloginReturn
    \/ LoopRecmdReturn
    \/ LoopStoreMode
    \/ LoopStoreLastAction
    \/ LoopStoreAt
    \/ LoopPublish
    \/ LoopWake
    \/ \E c \in Callers : LoopQuiet /\ ManualBegin(c)
    \/ \E c \in Callers : ManualLoginReturn(c)
    \/ \E c \in Callers : ManualCallReturn(c)
    \/ \E c \in Callers : ManualStoreMode(c)
    \/ \E c \in Callers : ManualStoreLastAction(c)
    \/ \E c \in Callers : ManualStoreAt(c)

SpecSerial == InitSerial /\ [][NextSerial]_vars

\* C35: after any sequence of loop cycles and manual commands run one at a
\* time, mode is Heat exactly when last_action is heat, Cool exactly when it
\* is cool, and None exactly when it is heat-idle, cool-idle, cancel or
\* unset; mode and last_action take no other value.
C35_Coherent ==
    (LoopQuiet /\ ManQuiet) =>
        /\ state.mode \in Modes
        /\ state.last_action \in ActionKinds \cup {"none"}
        /\ state.mode = ModeOf(state.last_action)

\* Between operations, after a manual Heat was accepted and a later cycle
\* applied HeatIdle.
C35_Witness ==
    /\ LoopQuiet /\ ManQuiet
    /\ man["m1"].cmd = "heat" /\ man["m1"].res = "ok"
    /\ state = [mode |-> "none", last_action |-> "heat-idle"]

\* ------------------------------------------------------- start and stop

\* start() and stop() called in any order, a second start() included, with
\* the clock; the loop thread is modelled call by call, the thread of the
\* second start() cycle by cycle.
InitStart == ServiceInit /\ cfgFile \in {BaseConfig, ScheduleConfig} /\ HarnessIdle

NextStart ==
    \/ LoopNext(SharedStatuses)
    \/ Tick
    \/ StartAgain
    \/ OtherExit
    \/ OtherBegin
    \/ OtherCycle(SharedStatuses)
    \/ OtherWake

SpecStart == InitStart /\ [][NextStart]_vars

\* C34: for every sequence of start and stop calls, at most one background
\* loop thread is executing a poll cycle at any time.
C34_Original ==
    ~(~LoopQuiet /\ loop2.pc = "cycle")

\* ------------------------------------------- logins and the client in use

\* C39: in every interleaving of the loop, manual commands and
\* configuration changes, no device operation is invoked on a client on
\* which no login has succeeded since it was built, and last_login_at is
\* never set for a client that has not itself been logged in.
C39_Original ==
    /\ [](last_login_at # Absent => session.logged)
    /\ [][OperationBegins => session'.logged]_vars

\* --------------------------------- the state and the command accepted last

\* C40: in every interleaving of the loop and manual commands, whenever no
\* operation of either is in progress, the state's mode is that of the hold
\* command the device accepted last (heat, Heat; cool, Cool; an idle
\* setpoint or a cancel, None).
C40_Original ==
    (LoopQuiet /\ ManQuiet) => state.mode = ModeOf(accepted)
====
